---- MODULE Spec2Model ----
(***************************************************************************)
(* English Booster affiliate back office: users, programs, registrations,  *)
(* link clicks, payout requests, and the handlers that read and write      *)
(* them.                                                                   *)
(*                                                                         *)
(* Numbers.  A JavaScript number is an IEEE 754 binary64 value.  It is     *)
(* written <<x>> when it is the double nearest to x / 10^6 (so <<1000000>> *)
(* is 1.0 and <<300000>> is 0.3), and <<sign, exp, hi, lo>>, the value     *)
(* sign * (hi * 2^26 + lo) * 2^exp, when it is any other double; each      *)
(* double has one of the two forms: the first when it is below 2048 in     *)
(* magnitude and nearest to a number of millionths, the second otherwise.  *)
(* Numbers stay below 2^31 hundredths in magnitude.                        *)
(* A numeric(_,2) column is an integer count of hundredths (1.00 is 100).  *)
(* toNumeric2 is the write conversion (number -> toString() ->             *)
(* numeric(_,2), which PostgreSQL rounds half away from zero) and          *)
(* parseFloat is the read conversion.                                      *)
(*                                                                         *)
(* Rows.  No handler deletes a row.  The serial id of a program, a          *)
(* registration, a payout request or a link click is the position of the   *)
(* row in its table: every INSERT into these tables succeeds.  An INSERT   *)
(* into users draws the id from the sequence users_id_seq before the       *)
(* unique constraints are checked, so a refused INSERT uses a value up and *)
(* a user row carries its id.  A SELECT without ORDER BY returns its rows  *)
(* in any order.  A nullable timestamp is <<>> (null) or <<t>>.            *)
(* Free-text columns that no handler reads back (names, phone, bank        *)
(* details, password hash, ip address, user agent) and the timestamps that *)
(* no handler reads or compares are not part of the state.                 *)
(*                                                                         *)
(* Requests.  A handler that awaits more than one statement, or that reads *)
(* the clock before the statement it awaits, runs one statement per step:  *)
(* inflight holds the requests that have started and not yet returned or   *)
(* thrown, each with the statement it is at (pc) and the values it holds.  *)
(* The first statement of a handler runs in the step in which the request  *)
(* arrives.  A request that throws leaves inflight and writes nothing.     *)
(***************************************************************************)
EXTENDS Integers, Sequences, FiniteSets, TLC

\* ---------------------------------------------------------------- bounds
\* rows per table and clock ticks under Spec
MaxUsers == 2
MaxPrograms == 1
MaxRegs == 1
MaxPayouts == 1
MaxClicks == 2
MaxTime == 1
\* requests in flight at once where requests overlap
MaxInFlight == 2
\* loop turns of one registerUser request under SpecUsers
UsersLookups == 2
\* loop turns of one registerUser request under SpecRegisterLoop
MaxLookups == 11
\* rows per table under SpecLedger and SpecPayoutRace
LedgerRegs == 2
LedgerPayouts == 2
\* link clicks under SpecStats
StatsClicks == 2
\* program rows a request may name under the specifications that start
\* from stored programs
LedgerPrograms == 2
\* rows programs may hold once seedPrograms has inserted its rows
MaxSeeded == 30
\* rows of programs up to which the orders of a scan are followed
MaxScanned == 2

\* millionths per hundredth: numeric(12,2) keeps two fractional digits
Cent == 10000
\* millionths per unit
Million == 1000000

\* ------------------------------------------------------------ input sets
AdminEmail == "admin@englishbooster.com"
Emails == {"u1@test.com", "u2@test.com"}
Roles == {"affiliate", "admin"}
\* candidates that generateAffiliateCode can return
Codes == {"AFFA", "AFFB"}
\* codes a caller may send: the generated ones and one nobody holds
InputCodes == Codes \cup {"NOPE"}
CommissionTypes == {"percentage", "flat"}
\* fee and commission_rate as the router lets them through (positive
\* numbers): 100 and 200, 10 and 20
Fees == {<<100000000>>, <<200000000>>}
Rates == {<<10000000>>, <<20000000>>}
\* payout amounts: 4 and 6
Amounts == {<<4000000>>, <<6000000>>}
PayoutStatuses == {"pending", "paid"}

Null == <<>>
Ok == ""

\* an optional input field: <<>> when absent, <<v>> when present
Opt(S) == {<<>>} \cup {<<v>> : v \in S}

\* update inputs: every combination of present and absent fields
UpdateInputs ==
  [fee : Opt(Fees), commission_rate : Opt(Rates),
   commission_type : Opt(CommissionTypes), is_active : Opt(BOOLEAN)]

\* users, programs, registrations, payouts and clicks are the tables and
\* users_id_seq the last value drawn from the id sequence of users; now is
\* the clock; calc is the program handed to calculateCommission and the
\* number it returned; inflight holds the requests under way
VARIABLES users, users_id_seq, programs, registrations, payouts, clicks, now,
          calc, inflight

vars == <<users, users_id_seq, programs, registrations, payouts, clicks, now, calc,
          inflight>>
tables == <<users, programs, registrations, payouts, clicks>>

\* ------------------------------------------------------------ conversions
\* n / d rounded to the nearest integer, ties away from zero
RoundDiv(n, d) ==
  IF n >= 0 THEN (n \div d) + (IF 2 * (n % d) >= d THEN 1 ELSE 0)
  ELSE -(((-n) \div d) + (IF 2 * ((-n) % d) >= d THEN 1 ELSE 0))

\* ------------------------------------------------------------ binary64
\* A double is <<0>> or <<sign, exp, hi, lo>>, the value
\* sign * (hi * 2^26 + lo) * 2^exp with 2^26 <= hi < 2^27 and 0 <= lo < 2^26.
\* Digit sequences are binary, most significant digit first; limbs are
\* digits to the base 1024.
Zeros(n) == IF n <= 0 THEN <<>> ELSE SubSeq([i \in 1..n |-> 0], 1, n)

\* the k low binary digits of n
Bits(n, k) == SubSeq([i \in 1..k |-> (n \div (2 ^ (k - i))) % 2], 1, k)

\* the integer of the ten digits of b after position j
Pack(b, j) ==
  b[j + 1] * 512 + b[j + 2] * 256 + b[j + 3] * 128 + b[j + 4] * 64 + b[j + 5] * 32
    + b[j + 6] * 16 + b[j + 7] * 8 + b[j + 8] * 4 + b[j + 9] * 2 + b[j + 10]

\* b with leading zeros up to n digits
Pad(b, n) == Zeros(n - Len(b)) \o b

\* the limbs of a digit sequence, and the digit sequence of limbs
Limbs(b) ==
  LET n == 10 * ((Len(b) + 9) \div 10)
      p == Pad(b, n)
  IN SubSeq([j \in 1..(n \div 10) |-> Pack(p, 10 * (j - 1))], 1, n \div 10)
Digits(l) ==
  SubSeq([i \in 1..(10 * Len(l)) |->
            (l[((i - 1) \div 10) + 1] \div (2 ^ (9 - ((i - 1) % 10)))) % 2],
         1, 10 * Len(l))

\* the integer of a digit sequence, below 2^31
Val(b) ==
  LET p == Pad(b, 40)
      l == Limbs(SubSeq(p, Len(p) - 39, Len(p)))
  IN ((l[1] * 1024 + l[2]) * 1024 + l[3]) * 1024 + l[4]

Ones(b) == {i \in 1..Len(b) : b[i] = 1}
Least(S) == CHOOSE i \in S : \A j \in S : i <= j
Greatest(S) == CHOOSE i \in S : \A j \in S : i >= j

\* b + 1, one digit longer when every digit of b is 1
Inc(b) ==
  LET zeros == {i \in 1..Len(b) : b[i] = 0}
  IN IF zeros = {} THEN <<1>> \o Zeros(Len(b))
     ELSE SubSeq([i \in 1..Len(b) |->
                    IF i < Greatest(zeros) THEN b[i]
                    ELSE IF i = Greatest(zeros) THEN 1 ELSE 0], 1, Len(b))

Mantissa(d) == Bits(d[3], 27) \o Bits(d[4], 26)

\* the double of a 53 digit mantissa
Packed(sign, m, e) == <<sign, e, Val(SubSeq(m, 1, 27)), Val(SubSeq(m, 28, 53))>>

\* the double nearest to sign * b * 2^e, ties to even; sticky: the value lies
\* above b * 2^e by less than 2^e
Round(sign, b, e, sticky) ==
  IF Ones(b) = {} THEN <<0>>
  ELSE LET sig == SubSeq(b, Least(Ones(b)), Len(b))
           L == Len(sig)
       IN IF L <= 53
          THEN Packed(sign, sig \o Zeros(53 - L), e - (53 - L))
          ELSE LET keep == SubSeq(sig, 1, 53)
                   rest == sticky \/ \E i \in 55..L : sig[i] = 1
                   up == sig[54] = 1 /\ (rest \/ keep[53] = 1)
                   m == IF up THEN Inc(keep) ELSE keep
               IN Packed(sign, SubSeq(m, 1, 53),
                         e + (L - 53) + (IF Len(m) = 54 THEN 1 ELSE 0))

\* ten limbs of r / d after the point, and what is left
RECURSIVE Fraction(_, _, _)
Fraction(r, d, acc) ==
  IF Len(acc) = 10 THEN [limbs |-> acc, rem |-> r]
  ELSE Fraction((r * 1024) % d, d, Append(acc, (r * 1024) \div d))

\* the double nearest to sign * (w + r / d), for integers w >= 0 and
\* 0 <= r < d < 2^21
Mixed(sign, w, r, d) ==
  LET f == Fraction(r, d, <<>>)
  IN Round(sign, Bits(w, 31) \o Digits(f.limbs), -100, f.rem # 0)

\* the double nearest to sign * n / d, for integers n >= 0 and 0 < d < 2^21
Ratio(sign, n, d) == Mixed(sign, n \div d, n % d, d)

Sign(x) == IF x < 0 THEN -1 ELSE 1
Abs(x) == IF x < 0 THEN -x ELSE x

\* A number is <<x>>, the double nearest to x / 10^6, or any other double.
Double(n) == IF Len(n) = 1 THEN Ratio(Sign(n[1]), Abs(n[1]), Million) ELSE n

\* limbs times an integer below 2^20, from the last limb
RECURSIVE Times(_, _, _, _, _)
Times(l, i, k, carry, acc) ==
  IF i = 0 THEN <<carry \div 1024, carry % 1024>> \o acc
  ELSE Times(l, i - 1, k, (l[i] * k + carry) \div 1024,
             <<(l[i] * k + carry) % 1024>> \o acc)

\* floor(|d| * k) for an integer k below 2^20
Floor(d, k) ==
  LET l == Limbs(Mantissa(d))
      b == Digits(Times(l, Len(l), k, 0, <<>>))
  IN Val(SubSeq(b, 1, Len(b) + d[2]))

\* a double of magnitude 2048 or more
IsLarge(d) == Len(d) = 4 /\ d[2] > -42

\* the number a double is written as
Number(d) ==
  IF Len(d) = 1 \/ IsLarge(d) THEN d
  ELSE LET x == Floor(d, Million)
       IN IF x > 0 /\ Ratio(d[1], x, Million) = d THEN <<d[1] * x>>
          ELSE IF Ratio(d[1], x + 1, Million) = d THEN <<d[1] * (x + 1)>>
          ELSE d

\* limbs to the base 8192 with carries, into digits
RECURSIVE Carry(_, _, _, _)
Carry(c, i, carry, acc) ==
  IF i > Len(c) THEN Bits(carry, 30) \o acc
  ELSE Carry(c, i + 1, (c[i] + carry) \div 8192, Bits((c[i] + carry) % 8192, 13) \o acc)

\* product of two doubles
Product(a, b) ==
  IF Len(a) = 1 \/ Len(b) = 1 THEN <<0>>
  ELSE LET x == <<a[4] % 8192, a[4] \div 8192, a[3] % 8192, a[3] \div 8192>>
           y == <<b[4] % 8192, b[4] \div 8192, b[3] % 8192, b[3] \div 8192>>
           c == << x[1] * y[1],
                   x[1] * y[2] + x[2] * y[1],
                   x[1] * y[3] + x[2] * y[2] + x[3] * y[1],
                   x[1] * y[4] + x[2] * y[3] + x[3] * y[2] + x[4] * y[1],
                   x[2] * y[4] + x[3] * y[3] + x[4] * y[2],
                   x[3] * y[4] + x[4] * y[3],
                   x[4] * y[4] >>
       IN Round(a[1] * b[1], Carry(c, 1, 0, <<>>), a[2] + b[2], FALSE)

\* limbs divided by an integer below 2^20, from the first limb
RECURSIVE Divide(_, _, _, _, _)
Divide(l, i, d, r, acc) ==
  IF i > Len(l) THEN [limbs |-> acc, rem |-> r]
  ELSE Divide(l, i + 1, d, (r * 1024 + l[i]) % d, Append(acc, (r * 1024 + l[i]) \div d))

\* a double / 100
Div100(a) ==
  IF Len(a) = 1 THEN <<0>>
  ELSE LET q == Divide(Limbs(Mantissa(a)) \o <<0>>, 1, 25, 0, <<>>)
       IN Round(a[1], Digits(q.limbs), a[2] - 12, q.rem # 0)

\* sum and difference of limb sequences of one length
RECURSIVE Plus(_, _, _, _, _)
Plus(a, b, i, carry, acc) ==
  IF i = 0 THEN <<carry>> \o acc
  ELSE Plus(a, b, i - 1, (a[i] + b[i] + carry) \div 1024,
            <<(a[i] + b[i] + carry) % 1024>> \o acc)

RECURSIVE Minus(_, _, _, _, _)
Minus(a, b, i, borrow, acc) ==
  IF i = 0 THEN acc
  ELSE Minus(a, b, i - 1, IF a[i] - b[i] - borrow < 0 THEN 1 ELSE 0,
             <<(a[i] - b[i] - borrow + 1024) % 1024>> \o acc)

Before(a, b) ==
  LET D == {i \in 1..Len(a) : a[i] # b[i]}
  IN D # {} /\ a[Least(D)] < b[Least(D)]

\* sum of two doubles
Sum(a, b) ==
  IF Len(a) = 1 THEN b
  ELSE IF Len(b) = 1 THEN a
  ELSE LET e == IF a[2] < b[2] THEN a[2] ELSE b[2]
           x0 == Mantissa(a) \o Zeros(a[2] - e)
           y0 == Mantissa(b) \o Zeros(b[2] - e)
           n == IF Len(x0) > Len(y0) THEN Len(x0) ELSE Len(y0)
           x == Limbs(Pad(x0, n))
           y == Limbs(Pad(y0, n))
       IN IF a[1] = b[1] THEN Round(a[1], Digits(Plus(x, y, Len(x), 0, <<>>)), e, FALSE)
          ELSE IF Before(x, y)
          THEN Round(b[1], Digits(Minus(y, x, Len(x), 0, <<>>)), e, FALSE)
          ELSE Round(a[1], Digits(Minus(x, y, Len(x), 0, <<>>)), e, FALSE)

Negation(a) == IF Len(a) = 1 THEN a ELSE <<-a[1], a[2], a[3], a[4]>>

\* a < b on doubles
Below(a, b) ==
  LET d == Sum(a, Negation(b))
  IN Len(d) = 4 /\ d[1] = -1

\* the hundredths a double is stored as in a numeric(_,2) column: the
\* decimal toString() writes, rounded half away from zero.  w is the whole
\* part and c the half hundredths in the rest.
Hundredths(d) ==
  IF Len(d) = 1 THEN 0
  ELSE LET w == Floor(d, 1)
           rest == Sum(<<1, d[2], d[3], d[4]>>, Negation(Mixed(1, w, 0, 1)))
           c == IF Len(rest) = 1 THEN 0 ELSE Floor(rest, 200)
       IN d[1] * (100 * w
                  + (IF c % 2 = 1 \/ Mixed(d[1], w, c + 1, 200) = d
                     THEN (c \div 2) + 1 ELSE c \div 2))

\* ------------------------------------------------------------ numbers
\* number.toString() written into a numeric(_,2) column: hundredths
toNumeric2(x) == IF Len(x) = 1 THEN RoundDiv(x[1], Cent) ELSE Hundredths(x)

\* parseFloat of a numeric(_,2) column
parseFloat(c) ==
  IF Abs(c) < 2048 * 100 THEN <<c * Cent>>
  ELSE Mixed(Sign(c), Abs(c) \div 100, Abs(c) % 100, 100)

\* the number of an integer literal n >= 0
Integer(n) == IF n < 2048 THEN <<n * Million>> ELSE Mixed(1, n, 0, 1)

\* a number without a fraction and below 256 in magnitude: products, sums
\* and differences of such numbers are exact
IsWhole(x) == Len(x) = 1 /\ x[1] % Million = 0 /\ Abs(x[1]) < 256 * Million

\* (a * b) / 100: the product is rounded, and then the quotient
MulDiv100(a, b) ==
  IF IsWhole(a) /\ IsWhole(b)
  THEN <<(a[1] \div Million) * (b[1] \div Million) * Cent>>
  ELSE Number(Div100(Product(Double(a), Double(b))))

\* a - b
Difference(a, b) ==
  IF IsWhole(a) /\ IsWhole(b) THEN <<a[1] - b[1]>>
  ELSE Number(Sum(Double(a), Negation(Double(b))))

\* a < b
LessThan(a, b) ==
  IF Len(a) = 1 /\ Len(b) = 1 THEN a[1] < b[1]
  ELSE Below(Double(a), Double(b))

\* Math.max(0, x)
Max0(x) == IF LessThan(x, <<0>>) THEN <<0>> ELSE x

\* ------------------------------------------------------------ statements
\* UPDATE t SET ... WHERE id = id, set[i] being row i after the SET: the
\* rows that match are rewritten, and no row is when none matches
UpdateWhere(t, id, set) ==
  [i \in 1..Len(t) |-> IF i = id THEN set[i] ELSE t[i]]

\* s without its k-th element
RemoveAt(s, k) == SubSeq(s, 1, k - 1) \o SubSeq(s, k + 1, Len(s))

RECURSIVE SumCommission(_, _)
\* sum(registrations.commission_amount) over the rows with ids in S
SumCommission(regs, S) ==
  IF S = {} THEN 0
  ELSE LET i == CHOOSE j \in S : TRUE
       IN regs[i].commission_amount + SumCommission(regs, S \ {i})

RECURSIVE SumAmount(_, _)
\* sum(payout_requests.amount) over the rows with ids in S
SumAmount(pays, S) ==
  IF S = {} THEN 0
  ELSE LET i == CHOOSE j \in S : TRUE
       IN pays[i].amount + SumAmount(pays, S \ {i})

\* SQL sum(): null over no rows
SqlSum(S, total) == IF S = {} THEN Null ELSE <<total>>

\* parseFloat(x || '0')
ParseOrZero(x) == IF x = Null THEN <<0>> ELSE parseFloat(x[1])

\* ------------------------------------------------------------ state
Init ==
  /\ users = <<>>
  /\ users_id_seq = Len(users)
  /\ programs = <<>>
  /\ registrations = <<>>
  /\ payouts = <<>>
  /\ clicks = <<>>
  /\ inflight = <<>>
  /\ now = 0
  /\ calc = Null

\* the clock that new Date() and defaultNow() read
Tick ==
  /\ now < MaxTime
  /\ now' = now + 1
  /\ UNCHANGED <<tables, users_id_seq, calc, inflight>>

InFlight == 1..Len(inflight)

\* request k is a call of op at statement pc
At(k, op, pc) == k \in InFlight /\ inflight[k].op = op /\ inflight[k].pc = pc

\* ------------------------------------------------------------ users
\* the rows of users, and the ids of the rows a SELECT finds
UserRows == {users[i] : i \in 1..Len(users)}
UserIdsByEmail(email) == {u.id : u \in {r \in UserRows : r.email = email}}
UserIdsByCode(code) ==
  {u.id : u \in {r \in UserRows : r.affiliate_code = <<code>>}}
AffiliateIdsByCode(code) ==
  {u.id : u \in {r \in UserRows : r.affiliate_code = <<code>>
                                      /\ r.role = "affiliate"}}
\* a bug: the role condition is missing
AffiliateIdsById_AnyRole(id) == {u.id : u \in {r \in UserRows : r.id = id}}

AffiliateIdsById(id) ==
  {u.id : u \in {r \in UserRows : r.id = id /\ r.role = "affiliate"}}

\* a bug: affiliate_code is not declared unique
usersInsertError_NoCodeConstraint(row) ==
  IF UserIdsByEmail(row.email) # {}
  THEN "duplicate key value violates unique constraint \"users_email_unique\""
  ELSE Ok

\* a bug: email is not declared unique
usersInsertError_NoEmailConstraint(row) ==
  IF row.affiliate_code # Null /\ UserIdsByCode(row.affiliate_code[1]) # {}
  THEN "duplicate key value violates unique constraint \"users_affiliate_code_unique\""
  ELSE Ok

\* the insert into usersTable fails when email or a non-null affiliate_code
\* is already held by a row
usersInsertError(row) ==
  IF UserIdsByEmail(row.email) # {}
  THEN "duplicate key value violates unique constraint \"users_email_unique\""
  ELSE IF row.affiliate_code # Null /\ UserIdsByCode(row.affiliate_code[1]) # {}
  THEN "duplicate key value violates unique constraint \"users_affiliate_code_unique\""
  ELSE Ok

\* a bug: the generated code is not written
userValues_NoCode(email, role, affiliateCode) ==
  [email |-> email, role |-> role, affiliate_code |-> Null]

\* the values registerUser inserts
userValues(email, role, affiliateCode) ==
  [email |-> email, role |-> role, affiliate_code |-> affiliateCode]

\* INSERT INTO users: the id is the next value of the sequence, drawn
\* before the unique constraints are checked, so that an insert they refuse
\* has used a value up
usersInsert(row) ==
  /\ users_id_seq' = users_id_seq + 1
  /\ users' = IF usersInsertError(row) # Ok THEN users
              ELSE Append(users, [id |-> users_id_seq + 1, email |-> row.email,
                                  role |-> row.role,
                                  affiliate_code |-> row.affiliate_code])

registerUserError(email) ==
  IF UserIdsByEmail(email) # {} THEN "Email already exists" ELSE Ok

\* a request arrives and looks the email up: it throws 'Email already exists'
\* or goes on, an affiliate to the code loop and anyone else to the insert
registerUserSelectEmail(email, role) ==
  IF registerUserError(email) # Ok
  THEN UNCHANGED vars
  ELSE /\ inflight' = Append(inflight,
              [op |-> "registerUser",
               pc |-> IF role = "affiliate" THEN "generateCode" ELSE "insert",
               email |-> email, role |-> role,
               affiliateCode |-> Null, lookups |-> 0])
       /\ UNCHANGED <<tables, users_id_seq, now, calc>>

\* one turn of while (!isUnique): a candidate and the lookup of its holder;
\* the loop goes round again, with a new candidate, when the candidate is
\* held.  lookups counts the turns; the handler keeps no such count.
registerUserGenerateCode(k, code) ==
  /\ At(k, "registerUser", "generateCode")
  /\ inflight' =
        IF UserIdsByCode(code) = {}
        THEN [inflight EXCEPT ![k].pc = "insert", ![k].affiliateCode = <<code>>,
                              ![k].lookups = @ + 1]
        ELSE [inflight EXCEPT ![k].lookups = @ + 1]
  /\ UNCHANGED <<tables, users_id_seq, now, calc>>

\* the insert: the row is added unless a unique constraint refuses it, and
\* the request returns or throws usersInsertError
registerUserInsert(k) ==
  /\ At(k, "registerUser", "insert")
  /\ usersInsert(userValues(inflight[k].email, inflight[k].role,
                            inflight[k].affiliateCode))
  /\ inflight' = RemoveAt(inflight, k)
  /\ UNCHANGED <<programs, registrations, payouts, clicks, now, calc>>

\* the values createAdminUser inserts
adminValues == [email |-> AdminEmail, role |-> "admin", affiliate_code |-> Null]

\* the rows the lookup of createAdminUser finds
existingAdmin == UserIdsByEmail(AdminEmail)

\* existingAdmin[0], the id of the user a call returns whose lookup finds a
\* row; email is unique, so the lookup finds one row at most
createAdminUserResult == CHOOSE i \in existingAdmin : TRUE

\* a bug: the call goes on to the insert without the lookup
createAdminUserSelect_NoLookup ==
  /\ inflight' = Append(inflight, [op |-> "createAdminUser", pc |-> "insert"])
  /\ UNCHANGED <<tables, users_id_seq, now, calc>>

\* a call arrives and looks the admin email up: it returns the row found,
\* writing nothing, or goes on to the insert
createAdminUserSelect ==
  IF existingAdmin # {}
  THEN UNCHANGED vars
  ELSE /\ inflight' = Append(inflight, [op |-> "createAdminUser", pc |-> "insert"])
       /\ UNCHANGED <<tables, users_id_seq, now, calc>>

\* the insert: the row is added unless a unique constraint refuses it, and
\* the call returns or throws usersInsertError
createAdminUserInsert(k) ==
  /\ At(k, "createAdminUser", "insert")
  /\ usersInsert(adminValues)
  /\ inflight' = RemoveAt(inflight, k)
  /\ UNCHANGED <<programs, registrations, payouts, clicks, now, calc>>

\* ------------------------------------------------------------ programs
createProgram(fee, rate, type, active) ==
  /\ programs' = Append(programs,
         [fee |-> toNumeric2(fee), commission_rate |-> toNumeric2(rate),
          commission_type |-> type, is_active |-> active])
  /\ UNCHANGED <<users, users_id_seq, registrations, payouts, clicks, now, calc, inflight>>

programError(id) == IF id \in 1..Len(programs) THEN Ok ELSE "Program not found"

\* a bug: an absent is_active is written as false
updateData_AbsentIsFalse(row, fee, rate, type, active) ==
  [fee |-> IF fee # <<>> THEN toNumeric2(fee[1]) ELSE row.fee,
   commission_rate |-> IF rate # <<>> THEN toNumeric2(rate[1]) ELSE row.commission_rate,
   commission_type |-> IF type # <<>> THEN type[1] ELSE row.commission_type,
   is_active |-> IF active # <<>> THEN active[1] ELSE FALSE]

\* updateData: a column is set only when the input field is present
updateData(row, fee, rate, type, active) ==
  [fee |-> IF fee # <<>> THEN toNumeric2(fee[1]) ELSE row.fee,
   commission_rate |-> IF rate # <<>> THEN toNumeric2(rate[1]) ELSE row.commission_rate,
   commission_type |-> IF type # <<>> THEN type[1] ELSE row.commission_type,
   is_active |-> IF active # <<>> THEN active[1] ELSE row.is_active]

\* programs after the UPDATE of updateProgram
updateProgramRows(id, fee, rate, type, active) ==
  UpdateWhere(programs, id,
     [i \in 1..Len(programs) |-> updateData(programs[i], fee, rate, type, active)])

\* the update is the one statement of the handler, which throws
\* programError(id) afterwards when the update returned no row
updateProgram(id, fee, rate, type, active) ==
  /\ programs' = updateProgramRows(id, fee, rate, type, active)
  /\ UNCHANGED <<users, users_id_seq, registrations, payouts, clicks, now, calc, inflight>>

\* a bug: the row is deleted
deleteProgram_Hard(id) ==
  /\ programs' = IF id \in 1..Len(programs) THEN RemoveAt(programs, id) ELSE programs
  /\ UNCHANGED <<users, users_id_seq, registrations, payouts, clicks, now, calc, inflight>>

\* programs after the UPDATE of deleteProgram
deleteProgramRows(id) ==
  UpdateWhere(programs, id,
     [i \in 1..Len(programs) |-> [programs[i] EXCEPT !.is_active = FALSE]])

\* the update is the one statement of the handler, which throws
\* programError(id) afterwards when the update returned no row
deleteProgram(id) ==
  /\ programs' = deleteProgramRows(id)
  /\ UNCHANGED <<users, users_id_seq, registrations, payouts, clicks, now, calc, inflight>>

\* the Program object the handlers return for a stored row
ProgramOf(row) ==
  [fee |-> parseFloat(row.fee), commission_rate |-> parseFloat(row.commission_rate),
   commission_type |-> row.commission_type]

\* the Program object of the row with this id
programObject(id) ==
  [id |-> id,
   fee |-> parseFloat(programs[id].fee),
   commission_rate |-> parseFloat(programs[id].commission_rate),
   commission_type |-> programs[id].commission_type,
   is_active |-> programs[id].is_active]

\* the orders in which a SELECT without ORDER BY can return the rows S
RECURSIVE ScanOrders(_)
ScanOrders(S) ==
  IF S = {} THEN {<<>>}
  ELSE UNION {{<<i>> \o s : s \in ScanOrders(S \ {i})} : i \in S}

\* the active programs, in the order scan in which the rows came; the call
\* writes nothing
getPrograms(scan) ==
  LET active == SelectSeq(scan, LAMBDA i : programs[i].is_active = TRUE)
  IN [k \in 1..Len(active) |-> programObject(active[k])]

\* the program with this id, active or not, or null; the call writes nothing
getProgramById(id) ==
  IF {i \in 1..Len(programs) : i = id} = {} THEN Null ELSE <<programObject(id)>>

\* the programs seedPrograms inserts
seedProgramsData ==
  << [fee |-> 1500000, commission_rate |-> 10, commission_type |-> "percentage"],
     [fee |-> 1800000, commission_rate |-> 10, commission_type |-> "percentage"],
     [fee |-> 2500000, commission_rate |-> 10, commission_type |-> "percentage"],
     [fee |-> 1200000, commission_rate |-> 10, commission_type |-> "percentage"],
     [fee |-> 3000000, commission_rate |-> 10, commission_type |-> "percentage"],
     [fee |-> 1600000, commission_rate |-> 10, commission_type |-> "percentage"],
     [fee |-> 1400000, commission_rate |-> 10, commission_type |-> "percentage"],
     [fee |-> 1300000, commission_rate |-> 10, commission_type |-> "percentage"],
     [fee |-> 2000000, commission_rate |-> 7, commission_type |-> "percentage"],
     [fee |-> 3500000, commission_rate |-> 7, commission_type |-> "percentage"],
     [fee |-> 6500000, commission_rate |-> 7, commission_type |-> "percentage"],
     [fee |-> 9000000, commission_rate |-> 7, commission_type |-> "percentage"],
     [fee |-> 4000000, commission_rate |-> 7, commission_type |-> "percentage"],
     [fee |-> 5000000, commission_rate |-> 7, commission_type |-> "percentage"],
     [fee |-> 12000000, commission_rate |-> 7, commission_type |-> "percentage"],
     [fee |-> 2500000, commission_rate |-> 100000, commission_type |-> "flat"],
     [fee |-> 500000, commission_rate |-> 100000, commission_type |-> "flat"],
     [fee |-> 1500000, commission_rate |-> 100000, commission_type |-> "flat"],
     [fee |-> 800000, commission_rate |-> 5, commission_type |-> "percentage"],
     [fee |-> 900000, commission_rate |-> 5, commission_type |-> "percentage"],
     [fee |-> 1000000, commission_rate |-> 5, commission_type |-> "percentage"],
     [fee |-> 1200000, commission_rate |-> 5, commission_type |-> "percentage"],
     [fee |-> 800000, commission_rate |-> 5, commission_type |-> "percentage"],
     [fee |-> 900000, commission_rate |-> 5, commission_type |-> "percentage"],
     [fee |-> 1000000, commission_rate |-> 5, commission_type |-> "percentage"],
     [fee |-> 1200000, commission_rate |-> 5, commission_type |-> "percentage"],
     [fee |-> 800000, commission_rate |-> 5, commission_type |-> "percentage"],
     [fee |-> 900000, commission_rate |-> 5, commission_type |-> "percentage"],
     [fee |-> 1000000, commission_rate |-> 5, commission_type |-> "percentage"],
     [fee |-> 1200000, commission_rate |-> 5, commission_type |-> "percentage"] >>

\* the values seedPrograms inserts for one of its programs
seedValues(prog) ==
  [fee |-> toNumeric2(Integer(prog.fee)),
   commission_rate |-> toNumeric2(Integer(prog.commission_rate)),
   commission_type |-> prog.commission_type,
   is_active |-> TRUE]

\* one INSERT of all the programs, whatever the table holds
seedPrograms ==
  /\ programs' = programs \o [i \in 1..Len(seedProgramsData) |->
                                seedValues(seedProgramsData[i])]
  /\ UNCHANGED <<users, users_id_seq, registrations, payouts, clicks, now, calc,
                 inflight>>

\* ------------------------------------------------------------ commission
\* a bug: the result is not clamped
calculateCommission_NoClamp(program) ==
  IF program.commission_type = "percentage"
  THEN MulDiv100(program.fee, program.commission_rate)
  ELSE program.commission_rate

calculateCommission(program) ==
  LET commission ==
        IF program.commission_type = "percentage"
        THEN MulDiv100(program.fee, program.commission_rate)
        ELSE IF program.commission_type = "flat"
        THEN program.commission_rate
        ELSE <<0>>
  IN Max0(commission)

\* ------------------------------------------------------------ registrations
\* a bug: the is_active condition is missing
ActiveProgramIds_AnyState(id) == {i \in 1..Len(programs) : i = id}

ActiveProgramIds(id) ==
  {i \in 1..Len(programs) : i = id /\ programs[i].is_active = TRUE}

\* the commission createRegistration computes inline from the row it read
commissionAmount(program) ==
  LET programFee == parseFloat(program.fee)
      commissionRate == parseFloat(program.commission_rate)
  IN IF program.commission_type = "percentage"
     THEN MulDiv100(programFee, commissionRate)
     ELSE commissionRate

createRegistrationAffiliateError(code) ==
  IF AffiliateIdsByCode(code) = {} THEN "Affiliate not found" ELSE Ok

createRegistrationProgramError(program_id) ==
  IF ActiveProgramIds(program_id) = {} THEN "Program not found or inactive" ELSE Ok

\* a request arrives and looks the affiliate up by code: it throws
\* createRegistrationAffiliateError or goes on, holding the affiliate's id
createRegistrationSelectAffiliate(code, program_id) ==
  IF createRegistrationAffiliateError(code) # Ok
  THEN UNCHANGED vars
  ELSE /\ inflight' = Append(inflight,
              [op |-> "createRegistration", pc |-> "selectProgram",
               affiliate_id |-> CHOOSE a \in AffiliateIdsByCode(code) : TRUE,
               program_id |-> program_id,
               commissionAmount |-> Null])
       /\ UNCHANGED <<tables, users_id_seq, now, calc>>

\* the lookup of the active program: the request throws
\* createRegistrationProgramError or goes on, holding the commission of the
\* row it read
createRegistrationSelectProgram(k) ==
  /\ At(k, "createRegistration", "selectProgram")
  /\ inflight' =
        IF createRegistrationProgramError(inflight[k].program_id) # Ok
        THEN RemoveAt(inflight, k)
        ELSE [inflight EXCEPT
                ![k].pc = "insert",
                ![k].commissionAmount =
                   <<commissionAmount(programs[inflight[k].program_id])>>]
  /\ UNCHANGED <<tables, users_id_seq, now, calc>>

\* the values createRegistration inserts, created_at being the default now()
registrationValues(r, t) ==
  [affiliate_id |-> r.affiliate_id,
   program_id |-> r.program_id,
   status |-> "pending",
   commission_amount |-> toNumeric2(r.commissionAmount[1]),
   created_at |-> t,
   payment_verified_at |-> Null]

\* the insert, of what the request holds, whatever the store holds by now
createRegistrationInsert(k) ==
  /\ At(k, "createRegistration", "insert")
  /\ registrations' = Append(registrations, registrationValues(inflight[k], now))
  /\ inflight' = RemoveAt(inflight, k)
  /\ UNCHANGED <<users, users_id_seq, programs, payouts, clicks, now, calc>>

\* a bug: the timestamp is not written
verifiedRow_NoStamp(row, t) == [row EXCEPT !.status = "payment_verified"]

\* a bug: verifying a verified registration puts it back to pending
verifiedRow_Toggle(row, t) ==
  [row EXCEPT !.status = IF @ = "pending" THEN "payment_verified" ELSE "pending",
              !.payment_verified_at = <<t>>]

\* a bug: the commission is recomputed from the program as it is now
verifiedRow_Recompute(row, t) ==
  [row EXCEPT !.status = "payment_verified", !.payment_verified_at = <<t>>,
              !.commission_amount =
                 toNumeric2(commissionAmount(programs[row.program_id]))]

\* a bug: a timestamp already written is kept
verifiedRow_KeepStamp(row, t) ==
  [row EXCEPT !.status = "payment_verified",
              !.payment_verified_at = IF @ = Null THEN <<t>> ELSE @]

\* the row after SET status, payment_verified_at
verifiedRow(row, t) ==
  [row EXCEPT !.status = "payment_verified", !.payment_verified_at = <<t>>]

verifyPaymentError(registration_id) ==
  IF registration_id \in 1..Len(registrations) THEN Ok ELSE "Registration not found"

\* a request arrives and builds the SET clause: new Date() is read here,
\* before the update is sent
verifyPaymentSet(registration_id) ==
  /\ inflight' = Append(inflight,
         [op |-> "verifyPayment", pc |-> "update",
          registration_id |-> registration_id,
          payment_verified_at |-> now])
  /\ UNCHANGED <<tables, users_id_seq, now, calc>>

\* a bug: the update has no WHERE clause
verifyPaymentUpdate_NoWhere(k) ==
  /\ At(k, "verifyPayment", "update")
  /\ registrations' =
        [i \in 1..Len(registrations) |->
           verifiedRow(registrations[i], inflight[k].payment_verified_at)]
  /\ inflight' = RemoveAt(inflight, k)
  /\ UNCHANGED <<users, users_id_seq, programs, payouts, clicks, now, calc>>

\* the update, with the time the request holds; the handler throws
\* verifyPaymentError(registration_id) afterwards, when it returned no row
verifyPaymentUpdate(k) ==
  /\ At(k, "verifyPayment", "update")
  /\ registrations' = UpdateWhere(registrations, inflight[k].registration_id,
        [i \in 1..Len(registrations) |->
           verifiedRow(registrations[i], inflight[k].payment_verified_at)])
  /\ inflight' = RemoveAt(inflight, k)
  /\ UNCHANGED <<users, users_id_seq, programs, payouts, clicks, now, calc>>

\* ------------------------------------------------------------ payouts
VerifiedRegIds(affiliateId) ==
  {i \in 1..Len(registrations) :
     /\ registrations[i].affiliate_id = affiliateId
     /\ registrations[i].status = "payment_verified"}

PayoutIds(affiliateId) ==
  {i \in 1..Len(payouts) : payouts[i].affiliate_id = affiliateId}

\* a bug: the status condition is missing
totalVerifiedCommission_AnyStatus(affiliateId) ==
  LET S == {i \in 1..Len(registrations) :
              registrations[i].affiliate_id = affiliateId}
  IN ParseOrZero(SqlSum(S, SumCommission(registrations, S)))

\* the sum over the payment_verified registrations, parsed
totalVerifiedCommission(affiliateId) ==
  LET S == VerifiedRegIds(affiliateId)
  IN ParseOrZero(SqlSum(S, SumCommission(registrations, S)))

\* the sum over the payout requests of every status, parsed
totalPayoutRequests(affiliateId) ==
  LET S == PayoutIds(affiliateId)
  IN ParseOrZero(SqlSum(S, SumAmount(payouts, S)))

createPayoutRequestAffiliateError(affiliateId) ==
  IF AffiliateIdsById(affiliateId) = {} THEN "Affiliate not found" ELSE Ok

\* availableCommission < input.amount, on the two sums read
createPayoutRequestBalanceError(totalVerified, totalPayouts, amount) ==
  IF LessThan(Difference(totalVerified, totalPayouts), amount)
  THEN "Insufficient verified commission balance"
  ELSE Ok

\* a request arrives and looks the affiliate up by id: it throws
\* createPayoutRequestAffiliateError or goes on
createPayoutRequestSelectAffiliate(affiliateId, amount) ==
  IF createPayoutRequestAffiliateError(affiliateId) # Ok
  THEN UNCHANGED vars
  ELSE /\ inflight' = Append(inflight,
              [op |-> "createPayoutRequest", pc |-> "sumCommission",
               affiliateId |-> affiliateId, amount |-> amount,
               totalVerifiedCommission |-> Null])
       /\ UNCHANGED <<tables, users_id_seq, now, calc>>

\* the sum over the payment_verified registrations, as read now
createPayoutRequestSumCommission(k) ==
  /\ At(k, "createPayoutRequest", "sumCommission")
  /\ inflight' = [inflight EXCEPT
        ![k].pc = "sumPayouts",
        ![k].totalVerifiedCommission =
           <<totalVerifiedCommission(inflight[k].affiliateId)>>]
  /\ UNCHANGED <<tables, users_id_seq, now, calc>>

\* a bug: the row is inserted before the balance is checked
createPayoutRequestSumPayouts_InsertFirst(k) ==
  /\ At(k, "createPayoutRequest", "sumPayouts")
  /\ payouts' = Append(payouts,
         [affiliate_id |-> inflight[k].affiliateId,
          amount |-> toNumeric2(inflight[k].amount),
          status |-> "pending",
          processed_at |-> Null])
  /\ inflight' =
        IF createPayoutRequestBalanceError(
              inflight[k].totalVerifiedCommission[1],
              totalPayoutRequests(inflight[k].affiliateId),
              inflight[k].amount) # Ok
        THEN RemoveAt(inflight, k)
        ELSE [inflight EXCEPT ![k].pc = "insert"]
  /\ UNCHANGED <<users, users_id_seq, programs, registrations, clicks, now, calc>>

\* the sum over the payout requests, as read now, and the balance check on
\* the two numbers read: the request throws createPayoutRequestBalanceError
\* or goes on to its insert
createPayoutRequestSumPayouts(k) ==
  /\ At(k, "createPayoutRequest", "sumPayouts")
  /\ inflight' =
        IF createPayoutRequestBalanceError(
              inflight[k].totalVerifiedCommission[1],
              totalPayoutRequests(inflight[k].affiliateId),
              inflight[k].amount) # Ok
        THEN RemoveAt(inflight, k)
        ELSE [inflight EXCEPT ![k].pc = "insert"]
  /\ UNCHANGED <<tables, users_id_seq, now, calc>>

\* the values createPayoutRequest inserts
payoutValues(r) ==
  [affiliate_id |-> r.affiliateId,
   amount |-> toNumeric2(r.amount),
   status |-> "pending",
   processed_at |-> Null]

\* a bug: the balance is read again, and the row added when it still covers
\* the amount
createPayoutRequestInsert_Recheck(k) ==
  /\ At(k, "createPayoutRequest", "insert")
  /\ payouts' =
        IF createPayoutRequestBalanceError(
              totalVerifiedCommission(inflight[k].affiliateId),
              totalPayoutRequests(inflight[k].affiliateId),
              inflight[k].amount) # Ok
        THEN payouts
        ELSE Append(payouts, payoutValues(inflight[k]))
  /\ inflight' = RemoveAt(inflight, k)
  /\ UNCHANGED <<users, users_id_seq, programs, registrations, clicks, now, calc>>

\* the insert: the row is added whatever the store holds by now
createPayoutRequestInsert(k) ==
  /\ At(k, "createPayoutRequest", "insert")
  /\ payouts' = Append(payouts, payoutValues(inflight[k]))
  /\ inflight' = RemoveAt(inflight, k)
  /\ UNCHANGED <<users, users_id_seq, programs, registrations, clicks, now, calc>>

updatePayoutStatusError(id) ==
  IF id \in 1..Len(payouts) THEN Ok ELSE "Payout request not found"

\* a bug: processed_at is not written
payoutUpdateData_NoStamp(row, status, t) == [row EXCEPT !.status = status]

\* a bug: going back to pending clears processed_at
payoutUpdateData_Clear(row, status, t) ==
  [row EXCEPT !.status = status,
              !.processed_at = IF status = "paid" THEN <<t>> ELSE Null]

\* a bug: a paid payout keeps its status
payoutUpdateData_OneWay(row, status, t) ==
  [row EXCEPT !.status = IF @ = "paid" THEN @ ELSE status,
              !.processed_at = IF status = "paid" THEN <<t>> ELSE @]

\* the row after SET updateData: status always, processed_at when paid
payoutUpdateData(row, status, t) ==
  [row EXCEPT !.status = status,
              !.processed_at = IF status = "paid" THEN <<t>> ELSE @]

\* a request arrives and looks the payout request up: it throws 'Payout
\* request not found' or builds updateData, reading new Date() for a paid
\* status, before the update is sent
updatePayoutStatusSelect(id, status) ==
  IF updatePayoutStatusError(id) # Ok
  THEN UNCHANGED vars
  ELSE /\ inflight' = Append(inflight,
              [op |-> "updatePayoutStatus", pc |-> "update",
               id |-> id, status |-> status, processed_at |-> now])
       /\ UNCHANGED <<tables, users_id_seq, now, calc>>

\* the update, with the updateData the request holds
updatePayoutStatusUpdate(k) ==
  /\ At(k, "updatePayoutStatus", "update")
  /\ payouts' = UpdateWhere(payouts, inflight[k].id,
        [i \in 1..Len(payouts) |->
           payoutUpdateData(payouts[i], inflight[k].status, inflight[k].processed_at)])
  /\ inflight' = RemoveAt(inflight, k)
  /\ UNCHANGED <<users, users_id_seq, programs, registrations, clicks, now, calc>>

\* ------------------------------------------------------------ tracking
trackLinkClickError(code) ==
  IF AffiliateIdsByCode(code) = {}
  THEN "Affiliate not found with code: " \o code
  ELSE Ok

\* a bug: the request goes on when no affiliate holds the code
trackLinkClickSelect_NoLookup(code) ==
  /\ inflight' = Append(inflight,
         [op |-> "trackLinkClick", pc |-> "insert",
          affiliate_id |-> IF AffiliateIdsByCode(code) = {} THEN 0
                           ELSE CHOOSE a \in AffiliateIdsByCode(code) : TRUE])
  /\ UNCHANGED <<tables, users_id_seq, now, calc>>

\* a request arrives and looks the affiliate up by code: it throws or goes
\* on, holding the affiliate's id
trackLinkClickSelect(code) ==
  IF trackLinkClickError(code) # Ok
  THEN UNCHANGED vars
  ELSE /\ inflight' = Append(inflight,
              [op |-> "trackLinkClick", pc |-> "insert",
               affiliate_id |-> CHOOSE a \in AffiliateIdsByCode(code) : TRUE])
       /\ UNCHANGED <<tables, users_id_seq, now, calc>>

\* a bug: the click replaces the clicks stored
trackLinkClickInsert_Replace(k) ==
  /\ At(k, "trackLinkClick", "insert")
  /\ clicks' = << [affiliate_id |-> inflight[k].affiliate_id] >>
  /\ inflight' = RemoveAt(inflight, k)
  /\ UNCHANGED <<users, users_id_seq, programs, registrations, payouts, now, calc>>

\* the insert of the click
trackLinkClickInsert(k) ==
  /\ At(k, "trackLinkClick", "insert")
  /\ clicks' = Append(clicks, [affiliate_id |-> inflight[k].affiliate_id])
  /\ inflight' = RemoveAt(inflight, k)
  /\ UNCHANGED <<users, users_id_seq, programs, registrations, payouts, now, calc>>

\* total ? parseFloat(total) : 0, on the string or null that sum() returns
ParseIfTruthy(x) == IF x = Null THEN <<0>> ELSE parseFloat(x[1])

\* a bug: the affiliate condition is missing
ClickIds_All(affiliateId) == {i \in 1..Len(clicks) : TRUE}

ClickIds(affiliateId) ==
  {i \in 1..Len(clicks) : clicks[i].affiliate_id = affiliateId}

RegistrationIds(affiliateId) ==
  {i \in 1..Len(registrations) : registrations[i].affiliate_id = affiliateId}

\* a bug: the affiliate condition is missing
RegistrationIdsByStatus_AnyAffiliate(affiliateId, status) ==
  {i \in 1..Len(registrations) : registrations[i].status = status}

RegistrationIdsByStatus(affiliateId, status) ==
  {i \in RegistrationIds(affiliateId) : registrations[i].status = status}

\* the five queries of getAffiliateStats, each as it reads the store now
clicksResult(affiliateId) == Cardinality(ClickIds(affiliateId))
registrationsResult(affiliateId) == Cardinality(RegistrationIds(affiliateId))
totalCommissionResult(affiliateId) ==
  LET S == RegistrationIds(affiliateId)
  IN SqlSum(S, SumCommission(registrations, S))
pendingCommissionResult(affiliateId) ==
  LET S == RegistrationIdsByStatus(affiliateId, "pending")
  IN SqlSum(S, SumCommission(registrations, S))
verifiedCommissionResult(affiliateId) ==
  LET S == RegistrationIdsByStatus(affiliateId, "payment_verified")
  IN SqlSum(S, SumCommission(registrations, S))

\* the AffiliateStats object built from the five results
AffiliateStats(r) ==
  [total_clicks |-> r.clicksResult,
   total_registrations |-> r.registrationsResult,
   total_commission |-> ParseIfTruthy(r.totalCommissionResult),
   pending_commission |-> ParseIfTruthy(r.pendingCommissionResult),
   verified_commission |-> ParseIfTruthy(r.verifiedCommissionResult)]

\* a request arrives and counts the clicks
getAffiliateStatsClicks(affiliateId) ==
  /\ inflight' = Append(inflight,
         [op |-> "getAffiliateStats", pc |-> "registrations",
          affiliateId |-> affiliateId,
          clicksResult |-> clicksResult(affiliateId),
          registrationsResult |-> 0,
          totalCommissionResult |-> Null,
          pendingCommissionResult |-> Null,
          verifiedCommissionResult |-> Null])
  /\ UNCHANGED <<tables, users_id_seq, now, calc>>

\* the count of the registrations
getAffiliateStatsRegistrations(k) ==
  /\ At(k, "getAffiliateStats", "registrations")
  /\ inflight' = [inflight EXCEPT
        ![k].pc = "totalCommission",
        ![k].registrationsResult = registrationsResult(inflight[k].affiliateId)]
  /\ UNCHANGED <<tables, users_id_seq, now, calc>>

\* the sum over the registrations of every status
getAffiliateStatsTotalCommission(k) ==
  /\ At(k, "getAffiliateStats", "totalCommission")
  /\ inflight' = [inflight EXCEPT
        ![k].pc = "pendingCommission",
        ![k].totalCommissionResult = totalCommissionResult(inflight[k].affiliateId)]
  /\ UNCHANGED <<tables, users_id_seq, now, calc>>

\* the sum over the pending registrations
getAffiliateStatsPendingCommission(k) ==
  /\ At(k, "getAffiliateStats", "pendingCommission")
  /\ inflight' = [inflight EXCEPT
        ![k].pc = "verifiedCommission",
        ![k].pendingCommissionResult = pendingCommissionResult(inflight[k].affiliateId)]
  /\ UNCHANGED <<tables, users_id_seq, now, calc>>

\* the sum over the payment_verified registrations
getAffiliateStatsVerifiedCommission(k) ==
  /\ At(k, "getAffiliateStats", "verifiedCommission")
  /\ inflight' = [inflight EXCEPT
        ![k].pc = "return",
        ![k].verifiedCommissionResult = verifiedCommissionResult(inflight[k].affiliateId)]
  /\ UNCHANGED <<tables, users_id_seq, now, calc>>

\* the request returns AffiliateStats(inflight[k]); nothing was written
getAffiliateStatsReturn(k) ==
  /\ At(k, "getAffiliateStats", "return")
  /\ inflight' = RemoveAt(inflight, k)
  /\ UNCHANGED <<tables, users_id_seq, now, calc>>

\* ------------------------------------------------------------ request surface
\* Each statement of each operation of the router, with the inputs of an
\* arriving request drawn from the input sets.  n is the number of requests
\* that may be under way at once, and rows the number of rows the table
\* written may hold: a request is taken while the rows of the table and the
\* requests under way that insert into it leave room for its row.  For
\* users, rows bounds the ids drawn from the sequence, those of refused
\* inserts included.  A request names an id that is a row's or the one after
\* the last.
Pending(ops) == Cardinality({k \in InFlight : inflight[k].op \in ops})

RegisterUserSelectEmail(n, rows, emails) ==
  /\ Len(inflight) < n
  /\ users_id_seq + Pending({"registerUser", "createAdminUser"}) < rows
  /\ \E e \in emails, r \in Roles : registerUserSelectEmail(e, r)
\* the loop turns of a request are followed up to turns
RegisterUserGenerateCode(turns) ==
  \E k \in InFlight, c \in Codes :
    /\ inflight[k].op = "registerUser"
    /\ inflight[k].lookups < turns
    /\ registerUserGenerateCode(k, c)
RegisterUserInsert == \E k \in InFlight : registerUserInsert(k)
CreateAdminUserSelect(n, rows) ==
  /\ Len(inflight) < n
  /\ users_id_seq + Pending({"registerUser", "createAdminUser"}) < rows
  /\ createAdminUserSelect
CreateAdminUserInsert == \E k \in InFlight : createAdminUserInsert(k)
\* the program ids a request may name: those of the first ids rows and the
\* one after the last row
ProgramIdInputs(ids) ==
  {id \in 1..(Len(programs) + 1) : id <= ids \/ id = Len(programs) + 1}

SeedPrograms(n, rows) ==
  /\ Len(inflight) < n
  /\ Len(programs) + Len(seedProgramsData) <= rows
  /\ seedPrograms
CreateProgram(n, rows) ==
  /\ Len(inflight) < n
  /\ Len(programs) < rows
  /\ \E f \in Fees, r \in Rates, t \in CommissionTypes, a \in BOOLEAN :
        createProgram(f, r, t, a)
UpdateProgram(n, ids) ==
  /\ Len(inflight) < n
  /\ \E id \in ProgramIdInputs(ids), in \in UpdateInputs :
        updateProgram(id, in.fee, in.commission_rate, in.commission_type, in.is_active)
DeleteProgram(n, ids) ==
  /\ Len(inflight) < n
  /\ \E id \in ProgramIdInputs(ids) : deleteProgram(id)
CreateRegistrationSelectAffiliate(n, rows, ids) ==
  /\ Len(inflight) < n
  /\ Len(registrations) + Pending({"createRegistration"}) < rows
  /\ \E c \in InputCodes, p \in ProgramIdInputs(ids) :
        createRegistrationSelectAffiliate(c, p)
CreateRegistrationSelectProgram == \E k \in InFlight : createRegistrationSelectProgram(k)
CreateRegistrationInsert == \E k \in InFlight : createRegistrationInsert(k)
VerifyPaymentSet(n) ==
  /\ Len(inflight) < n
  /\ \E id \in 1..(Len(registrations) + 1) : verifyPaymentSet(id)
VerifyPaymentUpdate == \E k \in InFlight : verifyPaymentUpdate(k)
CreatePayoutRequestSelectAffiliate(n, rows, amounts) ==
  /\ Len(inflight) < n
  /\ Len(payouts) + Pending({"createPayoutRequest"}) < rows
  /\ \E a \in 1..(users_id_seq + 1), m \in amounts :
        createPayoutRequestSelectAffiliate(a, m)
CreatePayoutRequestSumCommission ==
  \E k \in InFlight : createPayoutRequestSumCommission(k)
CreatePayoutRequestSumPayouts ==
  \E k \in InFlight : createPayoutRequestSumPayouts(k)
CreatePayoutRequestInsert == \E k \in InFlight : createPayoutRequestInsert(k)
UpdatePayoutStatusSelect(n) ==
  /\ Len(inflight) < n
  /\ \E id \in 1..(Len(payouts) + 1), s \in PayoutStatuses :
        updatePayoutStatusSelect(id, s)
UpdatePayoutStatusUpdate == \E k \in InFlight : updatePayoutStatusUpdate(k)
TrackLinkClickSelect(n, rows) ==
  /\ Len(inflight) < n
  /\ Len(clicks) + Pending({"trackLinkClick"}) < rows
  /\ \E c \in InputCodes : trackLinkClickSelect(c)
TrackLinkClickInsert == \E k \in InFlight : trackLinkClickInsert(k)
GetAffiliateStatsClicks(n) ==
  /\ Len(inflight) < n
  /\ Pending({"getAffiliateStats"}) = 0
  /\ \E a \in 1..(users_id_seq + 1) : getAffiliateStatsClicks(a)
GetAffiliateStatsRegistrations == \E k \in InFlight : getAffiliateStatsRegistrations(k)
GetAffiliateStatsTotalCommission ==
  \E k \in InFlight : getAffiliateStatsTotalCommission(k)
GetAffiliateStatsPendingCommission ==
  \E k \in InFlight : getAffiliateStatsPendingCommission(k)
GetAffiliateStatsVerifiedCommission ==
  \E k \in InFlight : getAffiliateStatsVerifiedCommission(k)
GetAffiliateStatsReturn == \E k \in InFlight : getAffiliateStatsReturn(k)
\* queries of one statement: the store is read and nothing is written
GetPrograms ==
  /\ Len(programs) <= MaxScanned
  /\ \E scan \in ScanOrders(1..Len(programs)) :
        /\ Len(getPrograms(scan)) <= Len(programs)
        /\ UNCHANGED vars
GetProgramById(ids) ==
  \E id \in ProgramIdInputs(ids) :
    /\ Len(getProgramById(id)) <= 1
    /\ UNCHANGED vars

Next ==
  \/ RegisterUserSelectEmail(1, MaxUsers, {"u1@test.com"})
  \/ RegisterUserGenerateCode(UsersLookups)
  \/ RegisterUserInsert
  \/ CreateAdminUserSelect(1, MaxUsers)
  \/ CreateAdminUserInsert
  \/ SeedPrograms(1, MaxSeeded)
  \/ CreateProgram(1, MaxPrograms)
  \/ UpdateProgram(1, MaxPrograms)
  \/ DeleteProgram(1, MaxPrograms)
  \/ CreateRegistrationSelectAffiliate(1, MaxRegs, MaxPrograms)
  \/ CreateRegistrationSelectProgram
  \/ CreateRegistrationInsert
  \/ VerifyPaymentSet(1)
  \/ VerifyPaymentUpdate
  \/ CreatePayoutRequestSelectAffiliate(1, MaxPayouts, Amounts)
  \/ CreatePayoutRequestSumCommission
  \/ CreatePayoutRequestSumPayouts
  \/ CreatePayoutRequestInsert
  \/ UpdatePayoutStatusSelect(1)
  \/ UpdatePayoutStatusUpdate
  \/ TrackLinkClickSelect(1, MaxClicks)
  \/ TrackLinkClickInsert
  \/ GetPrograms
  \/ GetProgramById(MaxPrograms)

\* the operations of the request surface that write and the program queries,
\* one request at a time, from the empty store; registerUser is called with
\* one email, so that the users are an affiliate, an admin or both
Spec == Init /\ [][Next]_vars
\* ------------------------------------------------------------ overlapping requests
\* The store after registerUser for one affiliate, createAdminUser and
\* createProgram for a flat program (commission 10); registrations, their
\* verification, clicks, payout requests and program maintenance then run
\* with two requests under way at once, and the clock ticks.
InitOverlap ==
  /\ users = << [id |-> 1, email |-> "u1@test.com", role |-> "affiliate",
                 affiliate_code |-> <<"AFFA">>],
                [id |-> 2, email |-> AdminEmail, role |-> "admin", affiliate_code |-> Null] >>
  /\ users_id_seq = Len(users)
  /\ programs = << [fee |-> 10000, commission_rate |-> 1000,
                    commission_type |-> "flat", is_active |-> TRUE] >>
  /\ registrations = <<>>
  /\ payouts = <<>>
  /\ clicks = <<>>
  /\ inflight = <<>>
  /\ now = 0
  /\ calc = Null

NextOverlap ==
  \/ Tick
  \/ UpdateProgram(MaxInFlight, MaxPrograms)
  \/ DeleteProgram(MaxInFlight, MaxPrograms)
  \/ CreateRegistrationSelectAffiliate(MaxInFlight, MaxRegs, MaxPrograms)
  \/ CreateRegistrationSelectProgram
  \/ CreateRegistrationInsert
  \/ VerifyPaymentSet(MaxInFlight)
  \/ VerifyPaymentUpdate
  \/ CreatePayoutRequestSelectAffiliate(MaxInFlight, MaxPayouts, Amounts)
  \/ CreatePayoutRequestSumCommission
  \/ CreatePayoutRequestSumPayouts
  \/ CreatePayoutRequestInsert
  \/ UpdatePayoutStatusSelect(MaxInFlight)
  \/ UpdatePayoutStatusUpdate
  \/ TrackLinkClickSelect(MaxInFlight, MaxClicks)
  \/ TrackLinkClickInsert

SpecOverlap == InitOverlap /\ [][NextOverlap]_vars
\* ------------------------------------------------------------ ledger
\* The store after registerUser for two affiliates and createProgram for a
\* flat (commission 10) and a percentage (commission 20) program; the
\* registration and payout operations then run one request at a time, with
\* room for more rows.
InitLedger ==
  /\ users = << [id |-> 1, email |-> "u1@test.com", role |-> "affiliate",
                 affiliate_code |-> <<"AFFA">>],
                [id |-> 2, email |-> "u2@test.com", role |-> "affiliate",
                 affiliate_code |-> <<"AFFB">>] >>
  /\ users_id_seq = Len(users)
  /\ programs = << [fee |-> 10000, commission_rate |-> 1000,
                    commission_type |-> "flat", is_active |-> TRUE],
                   [fee |-> 20000, commission_rate |-> 1000,
                    commission_type |-> "percentage", is_active |-> TRUE] >>
  /\ registrations = <<>>
  /\ payouts = <<>>
  /\ clicks = <<>>
  /\ inflight = <<>>
  /\ now = 0
  /\ calc = Null

NextLedger ==
  \/ CreateRegistrationSelectAffiliate(1, LedgerRegs, LedgerPrograms)
  \/ CreateRegistrationSelectProgram
  \/ CreateRegistrationInsert
  \/ VerifyPaymentSet(1)
  \/ VerifyPaymentUpdate
  \/ CreatePayoutRequestSelectAffiliate(1, LedgerPayouts, Amounts)
  \/ CreatePayoutRequestSumCommission
  \/ CreatePayoutRequestSumPayouts
  \/ CreatePayoutRequestInsert
  \/ UpdatePayoutStatusSelect(1)
  \/ UpdatePayoutStatusUpdate

SpecLedger == InitLedger /\ [][NextLedger]_vars

\* ------------------------------------------------------------ concurrent payout requests
\* The operations of the ledger with two requests under way at once, so
\* that the statements of two createPayoutRequest calls interleave.
NextPayoutRace ==
  \/ CreateRegistrationSelectAffiliate(MaxInFlight, LedgerRegs, LedgerPrograms)
  \/ CreateRegistrationSelectProgram
  \/ CreateRegistrationInsert
  \/ VerifyPaymentSet(MaxInFlight)
  \/ VerifyPaymentUpdate
  \/ CreatePayoutRequestSelectAffiliate(MaxInFlight, LedgerPayouts, Amounts)
  \/ CreatePayoutRequestSumCommission
  \/ CreatePayoutRequestSumPayouts
  \/ CreatePayoutRequestInsert

SpecPayoutRace == InitLedger /\ [][NextPayoutRace]_vars

\* ------------------------------------------------------------ statistics
\* The store after registerUser for two affiliates and createProgram for a
\* flat program (commission 0.10) and a percentage program (fee 20, rate 1:
\* commission 0.20), with the operations that getAffiliateStats reads the
\* results of, clicks, registrations and their verification, running while a
\* getAffiliateStats call makes its five queries.
InitStats ==
  /\ users = << [id |-> 1, email |-> "u1@test.com", role |-> "affiliate",
                 affiliate_code |-> <<"AFFA">>],
                [id |-> 2, email |-> "u2@test.com", role |-> "affiliate",
                 affiliate_code |-> <<"AFFB">>] >>
  /\ users_id_seq = Len(users)
  /\ programs = << [fee |-> 10000, commission_rate |-> 10,
                    commission_type |-> "flat", is_active |-> TRUE],
                   [fee |-> 2000, commission_rate |-> 100,
                    commission_type |-> "percentage", is_active |-> TRUE] >>
  /\ registrations = <<>>
  /\ payouts = <<>>
  /\ clicks = <<>>
  /\ inflight = <<>>
  /\ now = 0
  /\ calc = Null

NextStats ==
  \/ TrackLinkClickSelect(MaxInFlight, StatsClicks)
  \/ TrackLinkClickInsert
  \/ CreateRegistrationSelectAffiliate(MaxInFlight, LedgerRegs, LedgerPrograms)
  \/ CreateRegistrationSelectProgram
  \/ CreateRegistrationInsert
  \/ VerifyPaymentSet(MaxInFlight)
  \/ VerifyPaymentUpdate
  \/ GetAffiliateStatsClicks(MaxInFlight)
  \/ GetAffiliateStatsRegistrations
  \/ GetAffiliateStatsTotalCommission
  \/ GetAffiliateStatsPendingCommission
  \/ GetAffiliateStatsVerifiedCommission
  \/ GetAffiliateStatsReturn

SpecStats == InitStats /\ [][NextStats]_vars

\* ------------------------------------------------------------ program maintenance
\* The two programs of InitLedger under updateProgram with every combination
\* of present and absent input fields, under deleteProgram, listed by
\* getPrograms and referenced by a registration.
NextPrograms ==
  \/ UpdateProgram(1, LedgerPrograms)
  \/ DeleteProgram(1, LedgerPrograms)
  \/ GetPrograms
  \/ GetProgramById(LedgerPrograms)
  \/ CreateRegistrationSelectAffiliate(1, MaxRegs, LedgerPrograms)
  \/ CreateRegistrationSelectProgram
  \/ CreateRegistrationInsert

SpecPrograms == InitLedger /\ [][NextPrograms]_vars

\* ------------------------------------------------------------ users
\* registerUser and createAdminUser with two requests under way at once, so
\* that the lookups and inserts of two requests interleave, from the empty
\* store.  A request may carry any email, the one createAdminUser looks up
\* included.
NextUsers ==
  \/ RegisterUserSelectEmail(MaxInFlight, MaxUsers + MaxInFlight, Emails \cup {AdminEmail})
  \/ RegisterUserGenerateCode(UsersLookups)
  \/ RegisterUserInsert
  \/ CreateAdminUserSelect(MaxInFlight, MaxUsers + MaxInFlight)
  \/ CreateAdminUserInsert

SpecUsers == Init /\ [][NextUsers]_vars
\* ------------------------------------------------------------ commission rule
\* fee and commission_rate of a Program object: negative, zero, with one,
\* two and three fractional digits, whole
CalcFees == {<<-100000000>>, <<-5000>>, <<0>>, <<5000>>, <<10000>>, <<500000>>,
             <<2800000>>, <<100000000>>}
CalcRates == {<<-1000000>>, <<0>>, <<30000>>, <<125000>>, <<1000000>>, <<10000000>>,
              <<11250000>>, <<12500000>>}
CalcPrograms ==
  [fee : CalcFees, commission_rate : CalcRates, commission_type : CommissionTypes]

InitCommission ==
  /\ users = <<>>
  /\ users_id_seq = Len(users)
  /\ programs = <<>>
  /\ registrations = <<>>
  /\ payouts = <<>>
  /\ clicks = <<>>
  /\ inflight = <<>>
  /\ now = 0
  /\ \E p \in CalcPrograms : calc = [program |-> p, result |-> Null]

CalculateCommission ==
  /\ calc # Null
  /\ calc.result = Null
  /\ calc' = [calc EXCEPT !.result = <<calculateCommission(calc.program)>>]
  /\ UNCHANGED <<tables, users_id_seq, now, inflight>>

NextCommission == CalculateCommission

SpecCommission == InitCommission /\ [][NextCommission]_vars

\* ------------------------------------------------------------ code generation
\* generateUniqueAffiliateCode one loop turn at a time, over a store whose
\* users hold any of the candidates the random source can produce and any of
\* the codes the timestamp fallback can produce.
maxAttempts == 10

DecimalDigit == <<"0", "1", "2", "3", "4", "5", "6", "7", "8", "9">>

\* n.toString() for an integer n >= 0
RECURSIVE toString(_)
toString(n) ==
  IF n < 10 THEN DecimalDigit[n + 1]
  ELSE toString(n \div 10) \o DecimalDigit[(n % 10) + 1]

\* the last k decimal digits of n
RECURSIVE LastDigits(_, _)
LastDigits(n, k) ==
  IF k = 0 THEN ""
  ELSE LastDigits(n \div 10, k - 1) \o DecimalDigit[(n % 10) + 1]

\* `AFF${Date.now().toString().slice(-6)}` at clock value t
fallbackCode(t) ==
  "AFF" \o (IF t < Million THEN toString(t) ELSE LastDigits(t, 6))

\* codes a stored user may hold, in the order the rows were inserted
StoreCodes == <<"AFFA", "AFFB", "AFF0", "AFF1">>

\* the users table holding exactly the codes in H
UsersHolding(H) ==
  LET held == SelectSeq(StoreCodes, LAMBDA c : c \in H)
  IN [i \in 1..Len(held) |->
        [id |-> i, email |-> held[i], role |-> "affiliate",
         affiliate_code |-> <<held[i]>>]]

InitCodeGen ==
  /\ \E H \in SUBSET {StoreCodes[i] : i \in 1..Len(StoreCodes)} :
        users = UsersHolding(H)
  /\ users_id_seq = Len(users)
  /\ programs = <<>>
  /\ registrations = <<>>
  /\ payouts = <<>>
  /\ clicks = <<>>
  /\ now = 0
  /\ calc = Null
  /\ inflight = <<>>

\* a call starts: attempts = 0
generateUniqueAffiliateCodeStart ==
  /\ inflight' = << [pc |-> "loop", attempts |-> 0, result |-> Null] >>
  /\ UNCHANGED <<tables, users_id_seq, now, calc>>

\* a bug: the candidate is returned without the lookup
generateUniqueAffiliateCodeAttempt_NoLookup(code) ==
  /\ inflight # <<>>
  /\ inflight[1].pc = "loop"
  /\ inflight[1].attempts < maxAttempts
  /\ inflight' = << [inflight[1] EXCEPT !.pc = "returned", !.result = <<code>>] >>
  /\ UNCHANGED <<tables, users_id_seq, now, calc>>

\* a bug: a colliding candidate is not counted
generateUniqueAffiliateCodeAttempt_NoCount(code) ==
  /\ inflight # <<>>
  /\ inflight[1].pc = "loop"
  /\ inflight[1].attempts < maxAttempts
  /\ inflight' =
        IF UserIdsByCode(code) = {}
        THEN << [inflight[1] EXCEPT !.pc = "returned", !.result = <<code>>] >>
        ELSE inflight
  /\ UNCHANGED <<tables, users_id_seq, now, calc>>

\* one turn of while (attempts < maxAttempts): the candidate is returned when
\* no user holds it, and counted as an attempt otherwise
generateUniqueAffiliateCodeAttempt(code) ==
  /\ inflight # <<>>
  /\ inflight[1].pc = "loop"
  /\ inflight[1].attempts < maxAttempts
  /\ inflight' =
        IF UserIdsByCode(code) = {}
        THEN << [inflight[1] EXCEPT !.pc = "returned", !.result = <<code>>] >>
        ELSE << [inflight[1] EXCEPT !.attempts = @ + 1] >>
  /\ UNCHANGED <<tables, users_id_seq, now, calc>>

\* the loop is exhausted: the timestamp code is returned as it is
generateUniqueAffiliateCodeFallback ==
  /\ inflight # <<>>
  /\ inflight[1].pc = "loop"
  /\ inflight[1].attempts >= maxAttempts
  /\ inflight' =
        << [inflight[1] EXCEPT !.pc = "returned", !.result = <<fallbackCode(now)>>] >>
  /\ UNCHANGED <<tables, users_id_seq, now, calc>>

GenerateStart ==
  /\ IF inflight = <<>> THEN TRUE ELSE inflight[1].pc = "returned"
  /\ generateUniqueAffiliateCodeStart
GenerateAttempt == \E c \in Codes : generateUniqueAffiliateCodeAttempt(c)
GenerateFallback == generateUniqueAffiliateCodeFallback

NextCodeGen ==
  \/ Tick
  \/ GenerateStart
  \/ GenerateAttempt
  \/ GenerateFallback

SpecCodeGen == InitCodeGen /\ [][NextCodeGen]_vars

\* a call that has started keeps running: the awaited lookup completes and
\* the loop body and the statements after the loop are executed
SpecCodeGenFair ==
  /\ InitCodeGen
  /\ [][NextCodeGen]_vars
  /\ WF_vars(GenerateAttempt)
  /\ WF_vars(GenerateFallback)

\* ------------------------------------------------------------ registration code loop
\* One registerUser request at a time over a store whose users hold any of
\* the codes, with the turns of the code loop followed up to MaxLookups.
NextRegisterLoop ==
  \/ RegisterUserSelectEmail(1, Len(StoreCodes) + 1, Emails)
  \/ RegisterUserGenerateCode(MaxLookups)
  \/ RegisterUserInsert

SpecRegisterLoop == InitCodeGen /\ [][NextRegisterLoop]_vars

\* ------------------------------------------------------------ amounts with cents
\* The store after registerUser for one affiliate and createProgram for a
\* flat program with commission_rate 0.30 and a percentage program with fee
\* 0.50 and commission_rate 1; the registration and payout operations then
\* run one request at a time, with payout amounts of 0.10 and 0.20.
CentRegs == 2
CentPayouts == 2
CentAmounts == {<<100000>>, <<200000>>}

InitCents ==
  /\ users = << [id |-> 1, email |-> "u1@test.com", role |-> "affiliate",
                 affiliate_code |-> <<"AFFA">>] >>
  /\ users_id_seq = Len(users)
  /\ programs = << [fee |-> 10000, commission_rate |-> 30,
                    commission_type |-> "flat", is_active |-> TRUE],
                   [fee |-> 50, commission_rate |-> 100,
                    commission_type |-> "percentage", is_active |-> TRUE] >>
  /\ registrations = <<>>
  /\ payouts = <<>>
  /\ clicks = <<>>
  /\ inflight = <<>>
  /\ now = 0
  /\ calc = Null

NextCents ==
  \/ CreateRegistrationSelectAffiliate(1, CentRegs, LedgerPrograms)
  \/ CreateRegistrationSelectProgram
  \/ CreateRegistrationInsert
  \/ VerifyPaymentSet(1)
  \/ VerifyPaymentUpdate
  \/ CreatePayoutRequestSelectAffiliate(1, CentPayouts, CentAmounts)
  \/ CreatePayoutRequestSumCommission
  \/ CreatePayoutRequestSumPayouts
  \/ CreatePayoutRequestInsert

SpecCents == InitCents /\ [][NextCents]_vars

\* ======================================================================
\* Properties
\* ======================================================================
RegIds == 1..Len(registrations)
PayIds == 1..Len(payouts)
UserIds == {u.id : u \in UserRows}
\* the user with this id
User(a) == CHOOSE u \in UserRows : u.id = a
Insufficient == "Insufficient verified commission balance"

\* request k throws or returns in this step
Ends(k) == inflight' = RemoveAt(inflight, k)

\* ---------------------------------------------------------------- C1
RECURSIVE C1_Verified(_, _)
\* commission (hundredths) of the payment_verified registrations of a among
\* the first n rows
C1_Verified(a, n) ==
  IF n = 0 THEN 0
  ELSE C1_Verified(a, n - 1)
       + (IF registrations[n].affiliate_id = a
             /\ registrations[n].status = "payment_verified"
          THEN registrations[n].commission_amount ELSE 0)

RECURSIVE C1_Requested(_, _)
\* amount (hundredths) of all payout requests of a among the first n rows
C1_Requested(a, n) ==
  IF n = 0 THEN 0
  ELSE C1_Requested(a, n - 1)
       + (IF payouts[n].affiliate_id = a THEN payouts[n].amount ELSE 0)

\* available balance of a in hundredths, in exact arithmetic
C1_Available(a) == C1_Verified(a, Len(registrations)) - C1_Requested(a, Len(payouts))

\* the balance check of a request that runs alone: it throws exactly when
\* the amount is above the available balance
C1_Check ==
  \A k \in InFlight :
    createPayoutRequestSumPayouts(k) =>
      /\ Ends(k) <=> inflight[k].amount[1] > C1_Available(inflight[k].affiliateId) * Cent
      /\ Ends(k) =>
            createPayoutRequestBalanceError(
               inflight[k].totalVerifiedCommission[1],
               totalPayoutRequests(inflight[k].affiliateId),
               inflight[k].amount) = Insufficient

\* a request that passed the check inserts a pending payout of its amount
C1_Accept ==
  \A k \in InFlight :
    createPayoutRequestInsert(k) =>
      payouts' = Append(payouts,
         [affiliate_id |-> inflight[k].affiliateId,
          amount |-> inflight[k].amount[1] \div Cent,
          status |-> "pending",
          processed_at |-> Null])

\* C1: createPayoutRequest for an existing affiliate is rejected with
\* 'Insufficient verified commission balance' exactly when the amount exceeds
\* (commission of the affiliate's payment_verified registrations) minus
\* (amount of all the affiliate's payout requests, pending or paid); a request
\* for exactly the available balance is accepted and inserts a pending payout;
\* pending registrations add nothing to the balance.
C1_InsufficientExactlyWhenAboveAvailable == [][C1_Check /\ C1_Accept]_vars

\* ---------------------------------------------------------------- C2
C2_AffiliateHolds(code) ==
  \E u \in UserIds :
    User(u).role = "affiliate" /\ User(u).affiliate_code = <<code>>

C2_ProgramActive(pid) == pid \in 1..Len(programs) /\ programs[pid].is_active

C2_Decision ==
  /\ \A code \in InputCodes :
        createRegistrationAffiliateError(code)
           = IF C2_AffiliateHolds(code) THEN Ok ELSE "Affiliate not found"
  /\ \A pid \in 1..(Len(programs) + 1) :
        createRegistrationProgramError(pid)
           = IF C2_ProgramActive(pid) THEN Ok ELSE "Program not found or inactive"

C2_Step ==
  /\ \A code \in InputCodes, pid \in 1..(Len(programs) + 1) :
        createRegistrationSelectAffiliate(code, pid) =>
           /\ C2_AffiliateHolds(code)
           /\ registrations' = registrations
  /\ \A k \in InFlight :
        createRegistrationSelectProgram(k) =>
           /\ registrations' = registrations
           /\ Ends(k) <=> ~C2_ProgramActive(inflight[k].program_id)
  /\ Len(registrations') > Len(registrations) =>
        \E k \in InFlight :
           /\ createRegistrationInsert(k)
           /\ registrations' = Append(registrations, registrations'[Len(registrations')])
           /\ registrations'[Len(registrations')].affiliate_id = inflight[k].affiliate_id
           /\ registrations'[Len(registrations')].program_id = inflight[k].program_id
           /\ User(inflight[k].affiliate_id).role = "affiliate"

\* C2: createRegistration succeeds only if the code is held by a user with
\* role affiliate and the program id is that of an active program; otherwise
\* it fails with 'Affiliate not found' or with 'Program not found or inactive'
\* (the same error for a missing and for an inactive program), and a failing
\* call adds no registration.  A call goes on from a lookup only when the
\* lookup found its row, and only a call that passed both lookups inserts.
C2_RegistrationPreconditions == [](C2_Decision) /\ [][C2_Step]_vars

\* a registration was created, its program was then made inactive, and the
\* same affiliate's code now gets the program error for that program and for
\* a missing id, while an unknown code gets the affiliate error
C2_Witness ==
  /\ Len(registrations) = 1
  /\ Len(programs) = 1
  /\ ~programs[1].is_active
  /\ \E code \in Codes : createRegistrationAffiliateError(code) = Ok
  /\ createRegistrationProgramError(1) = "Program not found or inactive"
  /\ createRegistrationProgramError(2) = "Program not found or inactive"
  /\ createRegistrationAffiliateError("NOPE") = "Affiliate not found"

\* ---------------------------------------------------------------- C3
\* no registration was created later than now
C3_CreatedInThePast == \A i \in RegIds : registrations[i].created_at <= now

C3_Step ==
  /\ Len(registrations') > Len(registrations) =>
        /\ registrations'[Len(registrations')].status = "pending"
        /\ registrations'[Len(registrations')].payment_verified_at = Null
  /\ \A id \in RegIds :
        verifyPaymentSet(id) =>
           inflight'[Len(inflight')].payment_verified_at >= registrations[id].created_at
  /\ \A k \in InFlight :
        (verifyPaymentUpdate(k) /\ inflight[k].registration_id \in RegIds) =>
           LET id == inflight[k].registration_id
           IN /\ registrations'[id].status = "payment_verified"
              /\ registrations'[id].payment_verified_at
                    = <<inflight[k].payment_verified_at>>

\* C3: a registration that createRegistration inserts has status pending and
\* payment_verified_at null; after verifyPayment on it the status is
\* payment_verified and payment_verified_at is a timestamp, the time at which
\* the verifyPayment call was made, which is at or after the creation time of
\* a registration that the call finds created.
C3_CreatedPendingThenVerified == [](C3_CreatedInThePast) /\ [][C3_Step]_vars

\* a registration verified at a later clock value than it was created at
C3_Witness ==
  \E i \in RegIds :
    /\ registrations[i].status = "payment_verified"
    /\ registrations[i].payment_verified_at # Null
    /\ registrations[i].payment_verified_at[1] > registrations[i].created_at

\* ---------------------------------------------------------------- C4
C4_Step ==
  \A i \in RegIds :
    registrations[i].status = "payment_verified" =>
      /\ i <= Len(registrations')
      /\ registrations'[i].status = "payment_verified"

\* C4: once a registration is payment_verified it is payment_verified in every
\* later state: no operation puts it back to pending or removes it.
C4_VerifiedIsTerminal == [][C4_Step]_vars

\* a registration that is still verified after its program was deleted and
\* its affiliate requested a payout
C4_Witness ==
  \E i \in RegIds :
    /\ registrations[i].status = "payment_verified"
    /\ ~programs[registrations[i].program_id].is_active
    /\ PayoutIds(registrations[i].affiliate_id) # {}

\* ---------------------------------------------------------------- C5
C5_Step ==
  \A i \in RegIds :
    /\ i <= Len(registrations')
    /\ registrations'[i].commission_amount = registrations[i].commission_amount

\* C5: the commission_amount of a registration never changes after creation:
\* updateProgram (fee, rate or type), deleteProgram and verifyPayment leave
\* the commission_amount of every existing registration as it was.
C5_CommissionIsSnapshot == [][C5_Step]_vars

\* a verified registration of a deleted program whose fee, rate or type was
\* changed so that the program now yields another commission than the one
\* the registration holds
C5_Witness ==
  \E i \in RegIds :
    LET p == programs[registrations[i].program_id]
    IN /\ registrations[i].status = "payment_verified"
       /\ ~p.is_active
       /\ registrations[i].commission_amount # toNumeric2(commissionAmount(p))

\* ---------------------------------------------------------------- C6
\* a number of at most three fractional digits, in thousandths
C6_Thousandths(x) == x[1] \div 1000

\* floor(|d| * 2 * 10^8) for a double d below 10
C6_Floor(d) ==
  LET l == Limbs(Mantissa(d))
      t == Times(l, Len(l), 10000, 0, <<>>)
      b == Digits(Times(t, Len(t), 20000, 0, <<>>))
      n == Len(b) + d[2]
  IN IF n <= 0 THEN 0 ELSE Val(SubSeq(b, IF n > 40 THEN n - 39 ELSE 1, n))

\* the multiple of 10^-8 nearest to a number
C6_Scaled(r) ==
  IF Len(r) = 1 THEN r[1] * 100 ELSE r[1] * ((C6_Floor(r) + 1) \div 2)

\* max(0, fee * rate / 100) in exact arithmetic, in multiples of 10^-8
C6_Percentage(p) ==
  LET product == C6_Thousandths(p.fee) * C6_Thousandths(p.commission_rate)
  IN IF product > 0 THEN product ELSE 0

C6_NonNegative(r) == IF Len(r) = 1 THEN r[1] >= 0 ELSE r[1] = 1

\* C6: calculateCommission is max(0, fee * rate / 100) for a percentage
\* program, the product and the quotient each rounded to a double, and
\* max(0, rate), whatever the fee, for a flat program, zero and negative fees
\* and rates included; it is never negative.
C6_CommissionRule ==
  (calc # Null /\ calc.result # Null) =>
     /\ C6_NonNegative(calc.result[1])
     /\ calc.program.commission_type = "percentage" =>
           C6_Scaled(calc.result[1]) = C6_Percentage(calc.program)
     /\ calc.program.commission_type = "flat" =>
           /\ calc.result[1] = IF calc.program.commission_rate[1] > 0
                               THEN calc.program.commission_rate ELSE <<0>>
           /\ \A f \in CalcFees :
                 calculateCommission([calc.program EXCEPT !.fee = f]) = calc.result[1]

\* the rule was applied to a percentage program with a negative rate and a
\* positive fee and returned 0
C6_Witness ==
  /\ calc # Null
  /\ calc.result = << <<0>> >>
  /\ calc.program.commission_type = "percentage"
  /\ calc.program.commission_rate[1] < 0
  /\ calc.program.fee[1] > 0

\* ---------------------------------------------------------------- C7
\* C7: the commission_amount createRegistration stores equals
\* calculateCommission of the program as stored at that moment, for both
\* commission types and every stored rate: the rule is computed identically
\* at registration time and in the commission rule function.
C7_StoredEqualsRule ==
  [][\A k \in InFlight :
        createRegistrationInsert(k) =>
           parseFloat(registrations'[Len(registrations')].commission_amount)
              = calculateCommission(ProgramOf(programs[inflight[k].program_id]))]_vars

\* ---------------------------------------------------------------- C8
\* C8 as stated: once a payout request is paid, no operation puts it back to
\* pending.
C8_PaidIsTerminal ==
  [][\A i \in PayIds : payouts[i].status = "paid" => payouts'[i].status = "paid"]_vars

C8_Decision ==
  \A i \in PayIds, s \in PayoutStatuses :
    payoutUpdateData(payouts[i], s, now).status = s

C8_Step ==
  /\ Len(payouts') > Len(payouts) => payouts'[Len(payouts')].status = "pending"
  /\ \A k \in InFlight :
        (updatePayoutStatusUpdate(k) /\ inflight[k].id \in PayIds) =>
           payouts'[inflight[k].id].status = inflight[k].status
  /\ \A i \in PayIds :
        payouts'[i].status # payouts[i].status =>
           /\ \E k \in InFlight : updatePayoutStatusUpdate(k) /\ inflight[k].id = i
           /\ \A j \in PayIds \ {i} : payouts'[j] = payouts[j]
           /\ UNCHANGED <<users, users_id_seq, programs, registrations>>

\* C8 (amended): the payout status is not one-way. A payout request starts
\* pending; updatePayoutStatus sets the status of the payout it addresses to
\* the status it is given, paid -> pending as well as pending -> paid; no other
\* operation changes the status of a payout request.
C8_StatusFollowsUpdate == [](C8_Decision) /\ [][C8_Step]_vars

\* a payout that was paid (processed_at is set) and is pending again
C8_Witness ==
  \E i \in PayIds : payouts[i].status = "pending" /\ payouts[i].processed_at # Null

\* ---------------------------------------------------------------- C9
\* C9: processed_at of a payout request is written exactly once, by the
\* first updatePayoutStatus that sets the status to paid; after that first
\* write no later updatePayoutStatus call, to paid again or to pending,
\* changes its value.  The update of a second call to paid, made at a later
\* time, breaks this: updateData.processed_at = new Date() is assigned
\* whenever input.status is 'paid', without a test of the stored value.
C9_ProcessedAtWrittenOnce ==
  [][\A i \in PayIds :
        payouts[i].processed_at # Null
           => payouts'[i].processed_at = payouts[i].processed_at]_vars

\* ---------------------------------------------------------------- C10
C10_Step ==
  /\ \A i \in PayIds :
        payouts[i].processed_at # Null => payouts'[i].processed_at # Null
  /\ \A k \in InFlight :
        (/\ updatePayoutStatusUpdate(k)
         /\ inflight[k].id \in PayIds
         /\ inflight[k].status = "pending"
         /\ payouts[inflight[k].id].status = "paid") =>
           /\ payouts'[inflight[k].id].status = "pending"
           /\ payouts'[inflight[k].id].processed_at = payouts[inflight[k].id].processed_at

C10_Decision ==
  \A i \in PayIds :
    payouts[i].processed_at # Null =>
      \A s \in PayoutStatuses :
        payoutUpdateData(payouts[i], s, now).processed_at # Null

\* C10: once processed_at is non-null it is never null again:
\* updatePayoutStatus(pending) on a paid payout sets the status to pending and
\* keeps the processed_at it had.
C10_ProcessedAtNeverCleared == [](C10_Decision) /\ [][C10_Step]_vars

\* a payout back in pending that still holds the processed_at of an earlier
\* clock value
C10_Witness ==
  \E i \in PayIds :
    /\ payouts[i].status = "pending"
    /\ payouts[i].processed_at # Null
    /\ payouts[i].processed_at[1] < now

\* ---------------------------------------------------------------- C11
\* the ids that match no user with role affiliate: missing, or an admin
C11_NotAffiliate(a) == a \notin UserIds \/ User(a).role = "admin"

C11_Decision ==
  /\ \A a \in 1..(users_id_seq + 1) :
        C11_NotAffiliate(a) =>
           createPayoutRequestAffiliateError(a) = "Affiliate not found"
  /\ \A k \in InFlight :
        inflight[k].op = "createPayoutRequest" => ~C11_NotAffiliate(inflight[k].affiliateId)

C11_Step ==
  /\ \A a \in 1..(users_id_seq + 1), m \in Amounts :
        createPayoutRequestSelectAffiliate(a, m) =>
           ~C11_NotAffiliate(a) /\ payouts' = payouts
  /\ Len(payouts') > Len(payouts) =>
        ~C11_NotAffiliate(payouts'[Len(payouts')].affiliate_id)

\* C11: createPayoutRequest with an affiliate id that matches no user, or
\* that matches a user whose role is admin, fails with 'Affiliate not found'
\* for every amount: the lookup of the affiliate is the first statement, so
\* no request of such an id reaches the sums and the balance check, and no
\* payout request of such an id is ever added.
C11_PayoutNeedsAffiliate == [](C11_Decision) /\ [][C11_Step]_vars

\* an admin and an affiliate are registered, the affiliate's payout request
\* was accepted, and the admin's id and the next free id get the affiliate
\* error
C11_Witness ==
  /\ \E a \in UserIds :
        /\ User(a).role = "admin"
        /\ createPayoutRequestAffiliateError(a) = "Affiliate not found"
  /\ createPayoutRequestAffiliateError(users_id_seq + 1) = "Affiliate not found"
  /\ \E i \in PayIds : User(payouts[i].affiliate_id).role = "affiliate"

\* ---------------------------------------------------------------- C12
\* C12: no two users hold the same non-null affiliate_code, in every state
\* reachable through registerUser and createAdminUser, overlapping
\* registerUser requests included.
C12_AffiliateCodeUnique ==
  \A i, j \in UserIds :
    (i # j /\ User(i).affiliate_code # Null)
       => User(i).affiliate_code # User(j).affiliate_code

\* two affiliates hold different codes, and a request whose code lookup
\* found its candidate free is about to insert that candidate, which another
\* request has taken since
C12_Witness ==
  /\ \E i, j \in UserIds :
        /\ i # j
        /\ User(i).affiliate_code # Null
        /\ User(j).affiliate_code # Null
  /\ \E k \in InFlight :
        /\ At(k, "registerUser", "insert")
        /\ inflight[k].affiliateCode # Null
        /\ UserIdsByCode(inflight[k].affiliateCode[1]) # {}

\* ---------------------------------------------------------------- C13
\* C13: every user with role affiliate has a non-null affiliate_code and
\* every user with role admin has a null affiliate_code, in every state
\* reachable through registerUser and createAdminUser.
C13_CodeFollowsRole ==
  \A i \in UserIds :
    /\ User(i).role = "affiliate" => User(i).affiliate_code # Null
    /\ User(i).role = "admin" => User(i).affiliate_code = Null

\* an affiliate with a code, an admin who registered, and the seeded admin
C13_Witness ==
  /\ \E i \in UserIds :
        User(i).role = "affiliate" /\ User(i).affiliate_code \in {<<c>> : c \in Codes}
  /\ \E i \in UserIds :
        User(i).role = "admin" /\ User(i).email \in Emails
  /\ \E i \in UserIds :
        User(i).role = "admin" /\ User(i).email = AdminEmail

\* ---------------------------------------------------------------- C20
C20_Decision ==
  \A e \in Emails \cup {AdminEmail} :
    registerUserError(e)
       = IF \E i \in UserIds : User(i).email = e THEN "Email already exists" ELSE Ok

C20_EmailUnique ==
  \A i, j \in UserIds : i # j => User(i).email # User(j).email

C20_Step ==
  /\ \A e \in Emails \cup {AdminEmail}, r \in Roles :
        registerUserSelectEmail(e, r) =>
           /\ users' = users
           /\ \A i \in UserIds : User(i).email # e
  /\ \A k \in InFlight :
        (registerUserInsert(k) /\ \E i \in UserIds : User(i).email = inflight[k].email) =>
           /\ users' = users
           /\ usersInsertError(userValues(inflight[k].email, inflight[k].role,
                                          inflight[k].affiliateCode))
                 = "duplicate key value violates unique constraint \"users_email_unique\""
  /\ users' # users =>
        /\ Len(users') = Len(users) + 1
        /\ SubSeq(users', 1, Len(users)) = users
        /\ \A i \in UserIds : User(i).email # users'[Len(users')].email

\* C20: registerUser with an email already held by a user fails with
\* 'Email already exists' and adds no user; a request whose lookup ran
\* before the email was taken is refused by the unique constraint at its
\* insert; a user is only ever added with an email no user holds, so no two
\* users share an email in any state reachable through registerUser and
\* createAdminUser, overlapping requests included.
C20_DuplicateEmailRefused ==
  [](C20_Decision /\ C20_EmailUnique) /\ [][C20_Step]_vars

\* an email is held by a user, so that a request arriving with it gets
\* 'Email already exists', while a request that looked the email up before
\* it was taken is at its insert
C20_Witness ==
  \E i \in UserIds, k \in InFlight :
    /\ registerUserError(User(i).email) = "Email already exists"
    /\ At(k, "registerUser", "insert")
    /\ inflight[k].email = User(i).email

\* ---------------------------------------------------------------- C22
C22_AdminIds == UserIdsByEmail(AdminEmail)

\* once a user holds the admin email: there is one such user, and a call
\* writes nothing and returns that user
C22_Repeat ==
  C22_AdminIds # {} =>
    /\ Cardinality(C22_AdminIds) = 1
    /\ ~ENABLED (createAdminUserSelect /\ vars' # vars)
    /\ C22_AdminIds = {createAdminUserResult}

C22_Step ==
  /\ createAdminUserSelect => users' = users
  /\ \A k \in InFlight :
        createAdminUserInsert(k) =>
           /\ Cardinality(UserIdsByEmail(AdminEmail)') = 1
           /\ C22_AdminIds = {} =>
                 users' = Append(users,
                    [id |-> users_id_seq + 1, email |-> AdminEmail,
                     role |-> "admin", affiliate_code |-> Null])
           /\ C22_AdminIds # {} => users' = users
  /\ C22_AdminIds # {} => createAdminUserResult' = createAdminUserResult

\* C22: createAdminUser is idempotent: after a call exactly one user holds
\* admin@englishbooster.com; every later call returns the id of that user
\* and writes nothing, whatever registerUser requests run in between.
C22_CreateAdminUserIdempotent == [](C22_Repeat) /\ [][C22_Step]_vars

\* the admin was created after a registration and a refused insert, which
\* took the id 2: a call now is a repeated call and returns id 3, the id of
\* the second row
C22_Witness ==
  /\ Len(users) = 2
  /\ users[2].email = AdminEmail
  /\ users[2].role = "admin"
  /\ users[2].id = 3
  /\ createAdminUserResult = 3

\* ---------------------------------------------------------------- C14
C14_Returned == inflight # <<>> /\ inflight[1].pc = "returned"

\* C14 as stated: generateUniqueAffiliateCode never returns a code that an
\* existing user holds, for every store content and every sequence of
\* candidates.
C14_NeverReturnsHeldCode ==
  C14_Returned => UserIdsByCode(inflight[1].result[1]) = {}

\* C14 (amended): a code that generateUniqueAffiliateCode returns from its
\* loop, after fewer than 10 colliding candidates, is held by no user; the
\* only code it can return that a user holds is the timestamp fallback,
\* returned unchecked after 10 colliding candidates.
C14_OnlyFallbackCanBeHeld ==
  C14_Returned =>
    /\ inflight[1].attempts < maxAttempts
          => UserIdsByCode(inflight[1].result[1]) = {}
    /\ UserIdsByCode(inflight[1].result[1]) # {}
          => /\ inflight[1].attempts = maxAttempts
             /\ \E t \in 0..MaxTime : inflight[1].result[1] = fallbackCode(t)

\* a store that holds one candidate: the call returned the other candidate
\* after at least one collision
C14_Witness ==
  /\ C14_Returned
  /\ inflight[1].attempts > 0
  /\ inflight[1].attempts < maxAttempts
  /\ \E c \in Codes : UserIdsByCode(c) # {}
  /\ inflight[1].result[1] \in Codes

\* ---------------------------------------------------------------- C25
C25_Running == inflight # <<>> /\ inflight[1].pc = "loop"

\* the lookups a call has made: one per colliding candidate, and one more
\* for the candidate it returned from the loop
C25_Lookups ==
  IF C14_Returned /\ inflight[1].attempts < maxAttempts
  THEN inflight[1].attempts + 1
  ELSE inflight[1].attempts

C25_Bounded ==
  inflight # <<>> =>
    /\ inflight[1].attempts \in 0..maxAttempts
    /\ C25_Lookups <= maxAttempts
    /\ (C25_Running /\ inflight[1].attempts = maxAttempts) =>
          /\ ENABLED generateUniqueAffiliateCodeFallback
          /\ \A c \in Codes : ~ENABLED generateUniqueAffiliateCodeAttempt(c)

C25_Step ==
  C25_Running =>
    /\ \A c \in Codes :
          generateUniqueAffiliateCodeAttempt(c) =>
             IF UserIdsByCode(c) = {}
             THEN inflight'[1].pc = "returned" /\ inflight'[1].result = <<c>>
             ELSE /\ inflight'[1].pc = "loop"
                  /\ inflight'[1].attempts = inflight[1].attempts + 1
    /\ (inflight'[1].pc = "returned" /\ inflight[1].attempts = maxAttempts) =>
          inflight'[1].result = <<fallbackCode(now)>>

\* C25: generateUniqueAffiliateCode terminates after at most 10 existence
\* lookups: it returns the first candidate that no user holds, and after 10
\* colliding candidates it returns the timestamp code, held by a user or
\* not, without a lookup.
C25_BoundedGeneration ==
  /\ [](C25_Bounded)
  /\ [][C25_Step]_vars
  /\ (C25_Running ~> C14_Returned)

\* ten candidates collided and the call returned the timestamp code, which
\* a user holds
C25_Witness ==
  /\ C14_Returned
  /\ inflight[1].attempts = maxAttempts
  /\ inflight[1].result = <<fallbackCode(now)>>
  /\ UserIdsByCode(fallbackCode(now)) # {}

\* ---------------------------------------------------------------- C26
\* C26: registerUser obtains an affiliate's code through the bounded
\* generation procedure: a request makes at most maxAttempts code lookups
\* before it goes on to its insert, whatever candidates are drawn, and a
\* request with role admin makes none.
C26_RegistrationLookupsBounded ==
  \A k \in InFlight :
    /\ inflight[k].lookups <= maxAttempts
    /\ inflight[k].role = "admin" =>
          inflight[k].lookups = 0 /\ inflight[k].affiliateCode = Null

\* ---------------------------------------------------------------- C15
RECURSIVE C15_Clicks(_, _)
\* number of link clicks of a among the first n rows
C15_Clicks(a, n) ==
  IF n = 0 THEN 0
  ELSE C15_Clicks(a, n - 1) + (IF clicks[n].affiliate_id = a THEN 1 ELSE 0)

RECURSIVE C15_Registrations(_, _, _)
\* number of registrations of a with a status in S among the first n rows
C15_Registrations(a, S, n) ==
  IF n = 0 THEN 0
  ELSE C15_Registrations(a, S, n - 1)
       + (IF registrations[n].affiliate_id = a /\ registrations[n].status \in S
          THEN 1 ELSE 0)

RECURSIVE C15_Commission(_, _, _)
\* commission (hundredths) of the registrations of a with a status in S among
\* the first n rows
C15_Commission(a, S, n) ==
  IF n = 0 THEN 0
  ELSE C15_Commission(a, S, n - 1)
       + (IF registrations[n].affiliate_id = a /\ registrations[n].status \in S
          THEN registrations[n].commission_amount ELSE 0)

C15_AnyStatus == {"pending", "payment_verified"}

C15_Expected(a) ==
  LET n == Len(registrations)
  IN [total_clicks |-> C15_Clicks(a, Len(clicks)),
      total_registrations |-> C15_Registrations(a, C15_AnyStatus, n),
      total_commission |-> <<C15_Commission(a, C15_AnyStatus, n) * Cent>>,
      pending_commission |-> <<C15_Commission(a, {"pending"}, n) * Cent>>,
      verified_commission |-> <<C15_Commission(a, {"payment_verified"}, n) * Cent>>]

C15_Zero ==
  [total_clicks |-> 0, total_registrations |-> 0, total_commission |-> <<0>>,
   pending_commission |-> <<0>>, verified_commission |-> <<0>>]

\* what getAffiliateStats(a) returns when its five queries read this state
C15_Stats(a) ==
  AffiliateStats([clicksResult |-> clicksResult(a),
                  registrationsResult |-> registrationsResult(a),
                  totalCommissionResult |-> totalCommissionResult(a),
                  pendingCommissionResult |-> pendingCommissionResult(a),
                  verifiedCommissionResult |-> verifiedCommissionResult(a)])

C15_Counts ==
  \A a \in 1..(users_id_seq + 1) :
    /\ C15_Stats(a) = C15_Expected(a)
    /\ (C15_Clicks(a, Len(clicks)) = 0
          /\ C15_Registrations(a, C15_AnyStatus, Len(registrations)) = 0)
         => C15_Stats(a) = C15_Zero

\* each query of a call takes its result from the store as it is at that
\* query, and the call writes nothing
C15_Step ==
  /\ \A a \in 1..(users_id_seq + 1) :
        getAffiliateStatsClicks(a) =>
           /\ inflight'[Len(inflight')].clicksResult = C15_Clicks(a, Len(clicks))
           /\ tables' = tables
  /\ \A k \in InFlight :
        LET a == inflight[k].affiliateId
            n == Len(registrations)
            stats == AffiliateStats(inflight'[k])
        IN /\ getAffiliateStatsRegistrations(k) =>
                 /\ stats.total_registrations = C15_Registrations(a, C15_AnyStatus, n)
                 /\ tables' = tables
           /\ getAffiliateStatsTotalCommission(k) =>
                 /\ stats.total_commission = <<C15_Commission(a, C15_AnyStatus, n) * Cent>>
                 /\ tables' = tables
           /\ getAffiliateStatsPendingCommission(k) =>
                 /\ stats.pending_commission = <<C15_Commission(a, {"pending"}, n) * Cent>>
                 /\ tables' = tables
           /\ getAffiliateStatsVerifiedCommission(k) =>
                 /\ stats.verified_commission
                       = <<C15_Commission(a, {"payment_verified"}, n) * Cent>>
                 /\ tables' = tables
           /\ getAffiliateStatsReturn(k) => tables' = tables

\* C15: getAffiliateStats(a) returns the number of a's link clicks, the
\* number of a's registrations, and the sums of commission_amount over a's
\* registrations (all, pending, payment_verified), each as the store holds
\* them when the query for it runs, counting no record of another affiliate;
\* every field is 0 when a has no matching record, a being a user or not.
C15_StatsCountOwnRecords == [](C15_Counts) /\ [][C15_Step]_vars

\* one affiliate has a click and a verified registration, the other a click
\* and a pending registration, and a call for the first has made its five
\* queries: it returns one click, one registration and all of the commission
\* as verified, while an id that is no user's has all-zero stats
C15_Witness ==
  \E a, b \in UserIds, k \in InFlight :
    /\ a # b
    /\ Len(clicks) = 2 /\ clicks[1].affiliate_id # clicks[2].affiliate_id
    /\ VerifiedRegIds(a) # {}
    /\ \E i \in RegIds : registrations[i].affiliate_id = b
                         /\ registrations[i].status = "pending"
    /\ At(k, "getAffiliateStats", "return")
    /\ inflight[k].affiliateId = a
    /\ AffiliateStats(inflight[k]) = C15_Stats(a)
    /\ C15_Stats(a).total_clicks = 1
    /\ C15_Stats(a).total_registrations = 1
    /\ C15_Stats(a).pending_commission = <<0>>
    /\ C15_Stats(a).verified_commission # <<0>>
    /\ C15_Stats(a).total_commission = C15_Stats(a).verified_commission
    /\ C15_Stats(b).pending_commission # <<0>>
    /\ C15_Stats(users_id_seq + 1) = C15_Zero

\* ---------------------------------------------------------------- C30
\* a + b of JavaScript
C30_Plus(a, b) == Number(Sum(Double(a), Double(b)))

\* C30 as stated, on the numbers returned: in every state, the result of
\* every getAffiliateStats call that is about to return, and the result a
\* call for any affiliate id would build from the five queries on that
\* state, has total_commission equal to the JavaScript sum
\* pending_commission + verified_commission.
C30_TotalIsPendingPlusVerified ==
  /\ \A k \in InFlight :
        At(k, "getAffiliateStats", "return") =>
           LET stats == AffiliateStats(inflight[k])
           IN stats.total_commission
                 = C30_Plus(stats.pending_commission, stats.verified_commission)
  /\ \A a \in 1..(users_id_seq + 1) :
        LET stats == C15_Stats(a)
        IN stats.total_commission
              = C30_Plus(stats.pending_commission, stats.verified_commission)

\* the amount, in hundredths, that a returned number is the double nearest to
C30_Amount(x) == x[1] \div Cent

\* the three fields as amounts: the total is the other two added
C30_Partition ==
  \A a \in 1..(users_id_seq + 1) :
    LET stats == C15_Stats(a)
    IN /\ Len(stats.total_commission) = 1
       /\ Len(stats.pending_commission) = 1
       /\ Len(stats.verified_commission) = 1
       /\ C30_Amount(stats.total_commission)
             = C30_Amount(stats.pending_commission)
               + C30_Amount(stats.verified_commission)

\* the update of verifyPayment on a pending registration moves its
\* commission from pending to verified in the stats of its affiliate and
\* changes no other field, and no field of the stats of anyone else
C30_Step ==
  \A k \in InFlight, id \in RegIds, owner \in UserIds :
    (/\ verifyPaymentUpdate(k)
     /\ inflight[k].registration_id = id
     /\ registrations[id].status = "pending"
     /\ registrations[id].affiliate_id = owner) =>
      LET moved == registrations[id].commission_amount
          before == C15_Stats(owner)
          after == C15_Stats(owner)'
      IN /\ C30_Amount(after.pending_commission)
               = C30_Amount(before.pending_commission) - moved
         /\ C30_Amount(after.verified_commission)
               = C30_Amount(before.verified_commission) + moved
         /\ after.total_commission = before.total_commission
         /\ after.total_registrations = before.total_registrations
         /\ after.total_clicks = before.total_clicks
         /\ \A a \in 1..(users_id_seq + 1) :
               a # owner => C15_Stats(a)' = C15_Stats(a)

\* C30 (amended): for every affiliate id, the stats that the five queries of
\* getAffiliateStats give on one state of the store satisfy total_commission
\* = pending_commission + verified_commission as decimal amounts of
\* hundredths, each returned field being the number nearest to its amount
\* (the JavaScript sum of the two returned numbers can differ from the total
\* in the last bit, and a call that a write overlaps takes its queries from
\* different states); the update of verifyPayment on a pending registration
\* moves exactly that registration's commission_amount from
\* pending_commission to verified_commission in these stats, leaving
\* total_commission, total_registrations and total_clicks as they were.
C30_StatsPartitionByStatus == [](C30_Partition) /\ [][C30_Step]_vars

\* an affiliate with a click, a verified and a pending registration: both
\* parts of the commission are positive and differ, and a call for this
\* affiliate is about to return the numbers the five queries give on this
\* state, whose JavaScript sum pending + verified is not the total, while
\* the other affiliate has a click and nothing else
C30_Witness ==
  \E a, b \in UserIds, k \in InFlight :
    /\ a # b
    /\ At(k, "getAffiliateStats", "return")
    /\ inflight[k].affiliateId = a
    /\ AffiliateStats(inflight[k]) = C15_Stats(a)
    /\ C15_Stats(a).total_commission
          # C30_Plus(C15_Stats(a).pending_commission,
                     C15_Stats(a).verified_commission)
    /\ C15_Stats(a).total_clicks = 1
    /\ C15_Stats(a).total_registrations = 2
    /\ C30_Amount(C15_Stats(a).pending_commission) > 0
    /\ C30_Amount(C15_Stats(a).verified_commission) > 0
    /\ C15_Stats(a).pending_commission # C15_Stats(a).verified_commission
    /\ C15_Stats(b).total_clicks = 1
    /\ C15_Stats(b).total_registrations = 0

\* ---------------------------------------------------------------- C16
ProgramIds == 1..Len(programs)

\* the orders in which the scan of getPrograms can return the rows
C16_Scans == ScanOrders(ProgramIds)

\* the ids getPrograms lists when the rows come in the order scan
C16_Listed(scan) ==
  {getPrograms(scan)[k].id : k \in 1..Len(getPrograms(scan))}

C16_Readable ==
  /\ \A id \in ProgramIds :
        /\ getProgramById(id) # Null
        /\ getProgramById(id)[1].id = id
        /\ getProgramById(id)[1].is_active = programs[id].is_active
        /\ \A scan \in C16_Scans :
              id \in C16_Listed(scan) <=> programs[id].is_active
  /\ \A i \in RegIds :
        /\ registrations[i].program_id \in ProgramIds
        /\ getProgramById(registrations[i].program_id) # Null

C16_Step ==
  /\ Len(programs') >= Len(programs)
  /\ \A id \in ProgramIds :
        deleteProgram(id) =>
           /\ programs' = [programs EXCEPT ![id].is_active = FALSE]
           /\ registrations' = registrations

\* C16: programs are never physically removed: deleteProgram only sets
\* is_active to false; afterwards getProgramById still returns the program,
\* with is_active false, getPrograms does not list it, and every registration
\* that references it still references an existing program.
C16_SoftDelete == [](C16_Readable) /\ [][C16_Step]_vars

\* a registration whose program was deleted: the program is returned by id
\* as inactive and is not listed, in whichever of the two orders the rows
\* come, while the other program is
C16_Witness ==
  \E i \in RegIds :
    LET pid == registrations[i].program_id
    IN /\ getProgramById(pid) # Null
       /\ getProgramById(pid)[1].is_active = FALSE
       /\ Cardinality(C16_Scans) = 2
       /\ \A scan \in C16_Scans :
             /\ pid \notin C16_Listed(scan)
             /\ Len(getPrograms(scan)) = 1

\* ---------------------------------------------------------------- C17
ClickRowIds == 1..Len(clicks)

C17_Decision ==
  \A code \in InputCodes :
    IF C2_AffiliateHolds(code)
    THEN trackLinkClickError(code) = Ok
    ELSE trackLinkClickError(code) = "Affiliate not found with code: " \o code

C17_Step ==
  /\ \A code \in InputCodes :
        trackLinkClickSelect(code) =>
           /\ clicks' = clicks
           /\ ~C2_AffiliateHolds(code) => UNCHANGED vars
           /\ C2_AffiliateHolds(code) =>
                 LET owner == inflight'[Len(inflight')].affiliate_id
                 IN /\ Len(inflight') = Len(inflight) + 1
                    /\ owner \in UserIds
                    /\ User(owner).role = "affiliate"
                    /\ User(owner).affiliate_code = <<code>>
  /\ clicks' # clicks =>
        /\ Len(clicks') = Len(clicks) + 1
        /\ \A i \in ClickRowIds : clicks'[i] = clicks[i]
        /\ \E k \in InFlight :
              /\ trackLinkClickInsert(k)
              /\ clicks'[Len(clicks')].affiliate_id = inflight[k].affiliate_id
  /\ \A k \in InFlight :
        (At(k, "trackLinkClick", "insert") /\ inflight' = RemoveAt(inflight, k)) =>
           clicks' = Append(clicks, [affiliate_id |-> inflight[k].affiliate_id])

\* C17: link clicks are append-only: a trackLinkClick whose code is held by
\* a user with role affiliate adds exactly one link click, owned by that
\* user; with any other code it fails with an affiliate-not-found error and
\* adds nothing; no operation changes or removes an existing link click.
C17_ClicksAppendOnly == [](C17_Decision) /\ [][C17_Step]_vars

\* two clicks of the affiliate are in the store together with an admin, a
\* verified registration of a deleted program and a paid payout, and a click
\* with a code nobody holds is refused
C17_Witness ==
  /\ Len(clicks) = 2
  /\ \A i \in ClickRowIds : User(clicks[i].affiliate_id).role = "affiliate"
  /\ \E u \in UserIds : User(u).role = "admin"
  /\ \E i \in RegIds :
        /\ registrations[i].status = "payment_verified"
        /\ ~programs[registrations[i].program_id].is_active
  /\ \E i \in PayIds : payouts[i].status = "paid"
  /\ trackLinkClickError("NOPE") = "Affiliate not found with code: NOPE"

\* ---------------------------------------------------------------- C18
\* ids that match no row of a table with n rows
C19_Missing(n) == {0, n + 1}

\* one write statement on a table: an INSERT that appends rows, or an
\* UPDATE of one row
C18_OneStatement(old, new) ==
  IF Len(new) > Len(old)
  THEN \A i \in 1..Len(old) : new[i] = old[i]
  ELSE /\ Len(new) = Len(old)
       /\ Cardinality({i \in 1..Len(old) : new[i] # old[i]}) <= 1

\* a step that changes at most one table, by one statement; the INSERT of
\* seedPrograms is the only one of more than one row
C18_OneWrite ==
  /\ (\E t \in 1..5 : Len(tables'[t]) > Len(tables[t]) + 1) => seedPrograms
  /\ (IF users' # users THEN 1 ELSE 0)
       + (IF programs' # programs THEN 1 ELSE 0)
       + (IF registrations' # registrations THEN 1 ELSE 0)
       + (IF payouts' # payouts THEN 1 ELSE 0)
       + (IF clicks' # clicks THEN 1 ELSE 0) <= 1
  /\ C18_OneStatement(users, users')
  /\ C18_OneStatement(programs, programs')
  /\ C18_OneStatement(registrations, registrations')
  /\ C18_OneStatement(payouts, payouts')
  /\ C18_OneStatement(clicks, clicks')

\* the error the next statement of request k ends the request with
C18_Error(k) ==
  LET r == inflight[k]
  IN CASE r.op = "registerUser" /\ r.pc = "insert" ->
            usersInsertError(userValues(r.email, r.role, r.affiliateCode))
       [] r.op = "createAdminUser" /\ r.pc = "insert" -> usersInsertError(adminValues)
       [] r.op = "createRegistration" /\ r.pc = "selectProgram" ->
            createRegistrationProgramError(r.program_id)
       [] r.op = "verifyPayment" /\ r.pc = "update" ->
            verifyPaymentError(r.registration_id)
       [] r.op = "createPayoutRequest" /\ r.pc = "sumPayouts" ->
            createPayoutRequestBalanceError(r.totalVerifiedCommission[1],
                                            totalPayoutRequests(r.affiliateId), r.amount)
       [] OTHER -> Ok

\* updateProgram and deleteProgram, of one statement each on programs,
\* write nothing when they end with an error; a request arrives when none
\* is under way
C18_ProgramErrors ==
  inflight = <<>> =>
    \A id \in C19_Missing(Len(programs)) :
       /\ programError(id) # Ok
       /\ deleteProgramRows(id) = programs
       /\ \A in \in UpdateInputs :
             updateProgramRows(id, in.fee, in.commission_rate,
                               in.commission_type, in.is_active) = programs

\* a request writes in its last statement only, and not when that statement
\* ends it with an error
C18_Step ==
  /\ C18_OneWrite
  /\ \A k \in InFlight :
        IF Ends(k)
        THEN C18_Error(k) # Ok => tables' = tables
        ELSE inflight' # inflight => tables' = tables
  /\ Len(inflight') > Len(inflight) => tables' = tables

\* C18: with one request at a time, an operation that ends in an error
\* leaves users, programs, registrations, link clicks and payout requests
\* as they were before the call, and every operation performs at most one
\* write statement: it changes at most one table, by one appended row or
\* one rewritten row.
C18_NoPartialWrites == [](C18_ProgramErrors) /\ [][C18_Step]_vars

\* all five tables hold rows and a request is about to end in an error
C18_Witness ==
  /\ \A t \in 1..5 : tables[t] # <<>>
  /\ \E k \in InFlight : C18_Error(k) # Ok
  /\ programError(Len(programs) + 1) # Ok

\* ---------------------------------------------------------------- C19
\* the call A changes nothing; a request arrives when none is under way
C19_NoEffect(A) == ~ENABLED (A /\ vars' # vars)

C19_Errors ==
  /\ \A id \in C19_Missing(Len(registrations)) :
        verifyPaymentError(id) = "Registration not found"
  /\ \A id \in C19_Missing(Len(payouts)) :
        updatePayoutStatusError(id) = "Payout request not found"
  /\ \A id \in C19_Missing(Len(programs)) :
        /\ programError(id) = "Program not found"
        /\ inflight = <<>> =>
              \A in \in UpdateInputs :
                 updateProgramRows(id, in.fee, in.commission_rate,
                                   in.commission_type, in.is_active) = programs
  /\ \A id \in RegIds : verifyPaymentError(id) = Ok
  /\ \A id \in PayIds : updatePayoutStatusError(id) = Ok
  /\ \A id \in ProgramIds : programError(id) = Ok

\* the calls of one statement that end with a not-found error
C19_Calls ==
  inflight = <<>> =>
    /\ \A id \in C19_Missing(Len(payouts)), st \in PayoutStatuses :
          C19_NoEffect(updatePayoutStatusSelect(id, st))
    /\ \A id \in C19_Missing(Len(programs)) : C19_NoEffect(deleteProgram(id))

\* the statements of verifyPayment with an id that matches no registration
C19_Step ==
  /\ \A id \in C19_Missing(Len(registrations)) :
        verifyPaymentSet(id) => tables' = tables
  /\ \A k \in InFlight :
        (verifyPaymentUpdate(k) /\ inflight[k].registration_id \notin RegIds) =>
           /\ tables' = tables
           /\ Ends(k)

\* C19: a mutation addressed to an id that does not exist fails with the
\* not-found error of its entity and changes nothing: verifyPayment with
\* 'Registration not found', updatePayoutStatus with 'Payout request not
\* found', updateProgram and deleteProgram with 'Program not found'; an id
\* that exists gets none of these errors.
C19_MissingIdChangesNothing ==
  [](C19_Errors) /\ [](C19_Calls) /\ [][C19_Step]_vars

\* an active program and a pending registration exist, rows that a
\* mutation would change if it were addressed to them, and the update of a
\* verifyPayment with an id that matches no registration is about to run
C19_Witness ==
  /\ \E id \in ProgramIds : programs[id].is_active
  /\ \E id \in RegIds : registrations[id].status = "pending"
  /\ \E k \in InFlight :
        /\ At(k, "verifyPayment", "update")
        /\ verifyPaymentError(inflight[k].registration_id) = "Registration not found"
  /\ updatePayoutStatusError(Len(payouts) + 1) = "Payout request not found"
  /\ programError(Len(programs) + 1) = "Program not found"

\* ---------------------------------------------------------------- C21
\* the columns of a program row
C21_Columns == {"fee", "commission_rate", "commission_type", "is_active"}

\* the columns whose input field is present
C21_Present(in) == {c \in C21_Columns : in[c] # <<>>}

\* the value the input gives for a column, as the column stores it
C21_Written(in, c) ==
  IF c \in {"fee", "commission_rate"} THEN in[c][1][1] \div Cent ELSE in[c][1]

\* the rows of programs after updateProgram with any id and input
C21_Writes ==
  \A id \in 1..(Len(programs) + 1), in \in UpdateInputs :
    LET new == updateProgramRows(id, in.fee, in.commission_rate,
                                 in.commission_type, in.is_active)
    IN /\ Len(new) = Len(programs)
       /\ \A i \in ProgramIds \ {id} : new[i] = programs[i]
       /\ id \in ProgramIds =>
             \A c \in C21_Columns :
               new[id][c] = IF c \in C21_Present(in) THEN C21_Written(in, c)
                            ELSE programs[id][c]

\* a step that rewrites a program leaves the other tables as they were
C21_Step ==
  (\E id \in ProgramIds : id <= Len(programs') /\ programs'[id] # programs[id])
     => UNCHANGED <<users, registrations, payouts, clicks>>

\* C21: updateProgram writes exactly the columns whose input field is
\* present: every column of the addressed program whose field is absent
\* keeps its value, every column whose field is present takes the input
\* value, and no other program changes.
C21_UpdateWritesPresentFieldsOnly == [](C21_Writes) /\ [][C21_Step]_vars

\* the two programs differ in every column: an update with some fields
\* present and others absent changed one of them and left the other as it
\* was created
C21_Witness ==
  /\ Len(programs) = 2
  /\ programs[2] = [fee |-> 20000, commission_rate |-> 1000,
                    commission_type |-> "percentage", is_active |-> TRUE]
  /\ programs[1] = [fee |-> 20000, commission_rate |-> 1000,
                    commission_type |-> "flat", is_active |-> FALSE]

\* ---------------------------------------------------------------- C23
\* a request goes on to its insert because the numbers it read pass the
\* check
C23_Passed ==
  \A k \in InFlight :
    (createPayoutRequestSumPayouts(k) /\ ~Ends(k)) =>
      /\ inflight'[k].pc = "insert"
      /\ inflight[k].amount[1]
            <= inflight[k].totalVerifiedCommission[1][1]
               - totalPayoutRequests(inflight[k].affiliateId)[1]

\* the insert of a request adds the request's row, whatever the balance is
\* by then
C23_Insert ==
  \A k \in InFlight :
    createPayoutRequestInsert(k) =>
      /\ Len(payouts') = Len(payouts) + 1
      /\ payouts'[Len(payouts')].affiliate_id = inflight[k].affiliateId
      /\ parseFloat(payouts'[Len(payouts')].amount) = inflight[k].amount

\* C23: the balance check and the insert of createPayoutRequest are not
\* atomic: a request passes the check on the sums it read and then inserts
\* without looking again, so two requests of one affiliate that both read
\* before either inserts both insert, and the affiliate's payout requests can
\* exceed the verified commission.
C23_CheckThenInsertNotAtomic == [][C23_Passed /\ C23_Insert]_vars

\* an affiliate whose two payout requests, each within the verified
\* commission, add up to more than it
C23_Witness ==
  \E a \in UserIds :
    /\ Cardinality(PayoutIds(a)) = 2
    /\ \A i \in PayoutIds(a) :
          parseFloat(payouts[i].amount)[1] <= totalVerifiedCommission(a)[1]
    /\ totalPayoutRequests(a)[1] > totalVerifiedCommission(a)[1]

\* ---------------------------------------------------------------- C24
C24_Decision ==
  \A id \in RegIds :
    registrations[id].status = "payment_verified" =>
      /\ verifyPaymentError(id) = Ok
      /\ \A t \in 0..MaxTime :
            verifiedRow(registrations[id], t) =
               [registrations[id] EXCEPT !.payment_verified_at = <<t>>]

C24_Step ==
  \A k \in InFlight, id \in RegIds :
    (/\ verifyPaymentUpdate(k)
     /\ inflight[k].registration_id = id
     /\ registrations[id].status = "payment_verified") =>
       /\ registrations'[id].status = "payment_verified"
       /\ registrations'[id].payment_verified_at = <<inflight[k].payment_verified_at>>
       /\ Ends(k)

\* C24: verifyPayment on a registration that is already payment_verified is
\* accepted: the status stays payment_verified and payment_verified_at is
\* overwritten with the time the later call read.
C24_ReverifyRestamps == [](C24_Decision) /\ [][C24_Step]_vars

\* a payout was paid at clock value 0, which needed the affiliate's only
\* registration to be verified by then, and that registration now carries
\* the later clock value: it was verified again
C24_Witness ==
  \E i \in RegIds, p \in PayIds :
    /\ Len(registrations) = 1
    /\ payouts[p].affiliate_id = registrations[i].affiliate_id
    /\ payouts[p].processed_at = <<0>>
    /\ registrations[i].status = "payment_verified"
    /\ registrations[i].payment_verified_at = <<1>>

\* ---------------------------------------------------------------- C27
\* C27: with operations that run one at a time and programs and amounts
\* that pass request validation, the payout requests of every affiliate add
\* up to at most the commission of the affiliate's payment_verified
\* registrations, so an affiliate with a payout request has a verified
\* registration.
C27_PayoutsWithinVerifiedCommission ==
  \A a \in 1..(users_id_seq + 1) :
    /\ C1_Requested(a, Len(payouts)) <= C1_Verified(a, Len(registrations))
    /\ PayoutIds(a) # {} => VerifiedRegIds(a) # {}

\* one affiliate has requested all of a verified commission in two requests
\* while the other, whose registration is still pending, has no payout
\* request and is refused every amount
C27_Witness ==
  \E a, b \in UserIds :
    /\ Cardinality(PayoutIds(a)) = 2
    /\ C1_Requested(a, Len(payouts)) = C1_Verified(a, Len(registrations))
    /\ RegistrationIdsByStatus(b, "pending") # {}
    /\ VerifiedRegIds(b) = {}
    /\ PayoutIds(b) = {}
    /\ \A m \in Amounts :
          createPayoutRequestBalanceError(totalVerifiedCommission(b),
                                          totalPayoutRequests(b), m) = Insufficient

\* ---------------------------------------------------------------- C28
C28_Coupled ==
  /\ \A i \in RegIds :
        registrations[i].status = "payment_verified"
           <=> registrations[i].payment_verified_at # Null
  /\ \A i \in PayIds :
        /\ payouts[i].status = "paid" => payouts[i].processed_at # Null
        /\ payouts[i].processed_at = Null => payouts[i].status = "pending"

\* a payout request starts pending with processed_at null, and stays so
\* through every step but the update of an updatePayoutStatus to paid
C28_Step ==
  payouts' # payouts =>
    /\ Len(payouts') > Len(payouts) =>
          /\ payouts'[Len(payouts')].status = "pending"
          /\ payouts'[Len(payouts')].processed_at = Null
    /\ \A i \in PayIds :
          (/\ payouts[i].processed_at = Null
           /\ ~\E k \in InFlight : /\ updatePayoutStatusUpdate(k)
                                   /\ inflight[k].id = i
                                   /\ inflight[k].status = "paid") =>
             /\ payouts'[i].status = "pending"
             /\ payouts'[i].processed_at = Null

\* C28: status and timestamp stay coupled: a registration is
\* payment_verified exactly when its payment_verified_at is not null; a paid
\* payout request has a processed_at; a payout request that was never set
\* to paid is pending with processed_at null.
C28_StatusTimestampCoupled == [](C28_Coupled) /\ [][C28_Step]_vars

\* a registration verified at clock value 0 and its affiliate's payout paid
\* at clock value 1
C28_Witness ==
  \E i \in RegIds, p \in PayIds :
    /\ registrations[i].status = "payment_verified"
    /\ registrations[i].payment_verified_at = <<0>>
    /\ payouts[p].status = "paid"
    /\ payouts[p].processed_at = <<1>>

\* ---------------------------------------------------------------- C29
C29_IsAffiliate(a) == a \in UserIds /\ User(a).role = "affiliate"

C29_References ==
  /\ \A i \in RegIds :
        /\ C29_IsAffiliate(registrations[i].affiliate_id)
        /\ registrations[i].program_id \in ProgramIds
  /\ \A i \in ClickRowIds : C29_IsAffiliate(clicks[i].affiliate_id)
  /\ \A i \in PayIds : C29_IsAffiliate(payouts[i].affiliate_id)

\* no user is removed or changed
C29_UsersKept == users' # users => SubSeq(users', 1, Len(users)) = users

\* a registration is added for a program that is active at that moment
C29_ActiveAtInsert ==
  Len(registrations') > Len(registrations) =>
    LET pid == registrations'[Len(registrations')].program_id
    IN pid \in ProgramIds /\ programs[pid].is_active = TRUE

\* a request goes on to its insert for a program that is active when the
\* request looks it up, and the registration added is for that program
C29_ActiveAtLookup ==
  \A k \in InFlight :
    /\ (createRegistrationSelectProgram(k) /\ ~Ends(k)) =>
          /\ inflight'[k].pc = "insert"
          /\ inflight[k].program_id \in ProgramIds
          /\ programs[inflight[k].program_id].is_active = TRUE
    /\ createRegistrationInsert(k) =>
          /\ Len(registrations') = Len(registrations) + 1
          /\ registrations'[Len(registrations')].program_id = inflight[k].program_id
          /\ inflight[k].program_id \in ProgramIds

\* C29 as stated: the program of a registration is active at the moment
\* the registration is created.
C29_ProgramActiveWhenCreated ==
  [](C29_References) /\ [][C29_UsersKept /\ C29_ActiveAtInsert]_vars

\* C29: referential integrity: the affiliate_id of every registration, link
\* click and payout request is the id of an existing user with role
\* affiliate, and the program_id of every registration is the id of an
\* existing program, which was active when createRegistration looked it up;
\* a deleteProgram or updateProgram between that lookup and the insert makes
\* it inactive by the time the registration is created.
C29_ReferentialIntegrity ==
  [](C29_References) /\ [][C29_UsersKept /\ C29_ActiveAtLookup]_vars

\* an admin and an affiliate exist, the affiliate owns a link click, and a
\* createRegistration that found its program active is at its insert while
\* the program has been made inactive
C29_Witness ==
  /\ \E u \in UserIds : User(u).role = "admin"
  /\ \E a \in UserIds, c \in ClickRowIds, k \in InFlight :
        /\ User(a).role = "affiliate"
        /\ clicks[c].affiliate_id = a
        /\ At(k, "createRegistration", "insert")
        /\ inflight[k].affiliate_id = a
        /\ programs[inflight[k].program_id].is_active = FALSE

====
